---- MODULE Spec2Model ----
(***************************************************************************)
(* Verification model of the VROS support site:                            *)
(*   - the label/column mapper of the tracker client                       *)
(*     (bugs-tracker/src/api/github.js),                                   *)
(*   - the Kanban board's optimistic drag and drop                         *)
(*     (bugs-tracker/src/components/KanbanColumn.jsx, KanbanBoard part),   *)
(*   - the API gateway worker (unnamed/part_003).                          *)
(***************************************************************************)
EXTENDS Integers, Sequences, FiniteSets, TLC

VARIABLES
    \* ---- label/column mapper (github.js)
    mIssues,      \* the issue list handed to the mapper (upstream order)
    mPhase,       \* "build" | "categorized" | "updated" | "applied" | ...
    mColumns,     \* result of categorizeIssues
    mTarget,      \* newStatus handed to updateIssueLabels ("none" before)
    mSubmitted,   \* label list updateIssueLabels puts in the PUT body
    \* ---- Kanban board (KanbanColumn.jsx, KanbanBoard) and its API client
    upIssues,     \* the issues as the upstream tracker holds them
    bIssues,      \* useState issues: column id -> cards, in display order
    bLoading,     \* useState loading
    bError,       \* useState error: "none" | "load" | "update"
    bCache,       \* githubAPI.cache entry of the default listing, or NoEntry
    bNow,         \* the browser's clock, ms
    bLoads,       \* number of getIssues requests in flight
    bPending,     \* updateIssueLabels calls in flight, oldest first
    bEvents,      \* history: number of loadIssues and onDragEnd calls and clock ticks
    bTrack,       \* history: the board before the latest cross-column drag
    \* ---- API gateway worker (unnamed/part_003) and the upstream tracker
    gNow,         \* the worker's clock, seconds
    kvRate,       \* env.RATE_LIMIT: address -> entry
    kvTokens,     \* env.TOKENS: token -> entry
    kvCache,      \* env.CACHE: cache key -> entry
    upWrites,     \* successful writes the upstream has taken (its content version)
    slots,        \* the requests in the worker: slot -> request, position, locals
    gRequests,    \* history: number of requests received
    gAdvances,    \* history: number of times the clock was moved on
    gGate,        \* history: address -> gate decisions since its counter was created
    \* ---- the board's filter bar (KanbanColumn.jsx, KanbanBoard)
    fFilters,     \* useState filters: severity, category, assignee, search
    fIsFiltered,  \* useState isFiltered
    \* ---- history of the board's drags
    bFailed       \* the failed cross-column drags: card, and the column it was taken from

mapperVars == <<mIssues, mPhase, mColumns, mTarget, mSubmitted>>
boardVars == <<upIssues, bIssues, bLoading, bError, bCache, bNow, bLoads,
               bPending, bEvents, bTrack>>

gatewayVars == <<gNow, kvRate, kvTokens, kvCache, upWrites, slots, gRequests,
                 gAdvances, gGate>>

filterVars == <<fFilters, fIsFiltered>>

vars == <<mapperVars, boardVars, gatewayVars, filterVars, bFailed>>

(***************************************************************************)
(* Bounds of the model.                                                    *)
(***************************************************************************)
MaxIssues == 2        \* issues in one listing
MaxLabels == 2        \* labels carried by the issues of one listing
NumCards == 2         \* issues the upstream holds for the board
NumSlots == 2         \* requests the worker handles at once
MaxGateRequests == 11 \* requests of one run of the rate-limiter specifications
MaxCacheRequests == 4 \* requests of one run of the cache specification
MaxSubmitRequests == 3 \* requests of one run of the submission specification
MaxPairRequests == 3  \* requests of one run of the request-pair specification
MaxExpiryRequests == 2 \* gateway requests of one run of the expiry specification
MaxRouteRequests == 2 \* requests of one run of the routing specification
MaxLabelRequests == 3 \* requests of one run of the label-update specification
MaxJointRequests == 3 \* gateway requests of one run of the board-and-gateway specification
MaxAdvances == 2      \* times the worker's clock is moved on in one run
MaxEvents == 3        \* loadIssues calls, onDragEnd calls and clock ticks of one board run

(***************************************************************************)
(* Sequence helpers (Array.prototype.includes / filter / find).            *)
(***************************************************************************)
Includes(seq, x) == \E i \in DOMAIN seq : seq[i] = x

IndexOfFirst(seq, P(_)) ==
    IF \E i \in DOMAIN seq : P(seq[i])
    THEN CHOOSE i \in DOMAIN seq : P(seq[i]) /\ \A j \in 1..(i-1) : ~P(seq[j])
    ELSE 0

\* A store entry that is absent (Map.get gives undefined, KV get gives null).
NoEntry == [has |-> FALSE]

(***************************************************************************)
(* Labels.  A label name "fam:val" is kept as its two parts; a name with   *)
(* no colon ("bug") has the empty family.  'status:' + x is Label("status",*)
(* x); name.startsWith('severity:') is fam = "severity".                   *)
(***************************************************************************)
Label(f, v) == [fam |-> f, val |-> v]

\* github.js:176-182
statusLabels ==
    << Label("status", "backlog"), Label("status", "todo"),
       Label("status", "in-progress"), Label("status", "testing"),
       Label("status", "done") >>

\* The five columns of the board (github.js:102-108, KanbanColumn.jsx:129).
Columns == <<"backlog", "todo", "inProgress", "testing", "done">>
ColumnSet == {Columns[i] : i \in DOMAIN Columns}

\* KanbanColumn.jsx:207-213
statusMap(col) == IF col = "inProgress" THEN "in-progress" ELSE col

\* Labels the upstream may carry on an issue in this model: the five
\* recognized status labels, a status label outside the five, and an opaque one.
LabelPool ==
    {statusLabels[i] : i \in DOMAIN statusLabels}
      \cup {Label("status", "blocked"), Label("", "bug")}

IsStatusForm(l) == l.fam = "status"
IsRecognizedStatus(l) == Includes(statusLabels, l)

(***************************************************************************)
(* github.js getSeverity / getCategory: first label of the family, else    *)
(* the default.                                                            *)
(***************************************************************************)
getSeverity(labels) ==
    LET i == IndexOfFirst(labels, LAMBDA l : l.fam = "severity")
    IN  IF i > 0 THEN labels[i].val ELSE "medium"

getCategory(labels) ==
    LET i == IndexOfFirst(labels, LAMBDA l : l.fam = "category")
    IN  IF i > 0 THEN labels[i].val ELSE "general"

\* An issue as the upstream returns it.  Texts are sequences of characters;
\* the body <<>> stands for null and for the empty text alike, the assignee
\* "none" for null.
Issue(n, st, labels) ==
    [number |-> n, state |-> st, labels |-> labels, title |-> <<>>,
     body |-> <<>>, assignee |-> "none"]

\* github.js parseIssue: the card made of an issue (issue.body || '' is the
\* body in this representation).
parseIssue(issue) ==
    [number |-> issue.number, state |-> issue.state, labels |-> issue.labels,
     title |-> issue.title, description |-> issue.body,
     assignee |-> issue.assignee,
     severity |-> getSeverity(issue.labels),
     category |-> getCategory(issue.labels)]

(***************************************************************************)
(* github.js categorizeIssues, lines 111-124: the column of one issue.     *)
(***************************************************************************)
ColumnOfMutKeepOpenClosed(issue) ==
    IF Includes(issue.labels, Label("status", "done")) THEN "done"
    ELSE IF Includes(issue.labels, Label("status", "testing")) THEN "testing"
    ELSE IF Includes(issue.labels, Label("status", "in-progress")) THEN "inProgress"
    ELSE IF Includes(issue.labels, Label("status", "todo")) THEN "todo"
    ELSE "backlog"

ColumnOf(issue) ==
    IF Includes(issue.labels, Label("status", "done")) \/ issue.state = "closed"
    THEN "done"
    ELSE IF Includes(issue.labels, Label("status", "testing")) THEN "testing"
    ELSE IF Includes(issue.labels, Label("status", "in-progress")) THEN "inProgress"
    ELSE IF Includes(issue.labels, Label("status", "todo")) THEN "todo"
    ELSE "backlog"

EmptyColumns == [c \in ColumnSet |-> <<>>]

RECURSIVE categorizeLoop(_, _, _)
categorizeLoop(issues, k, cols) ==
    IF k > Len(issues) THEN cols
    ELSE categorizeLoop(issues, k + 1,
             [cols EXCEPT ![ColumnOf(issues[k])] = Append(@, parseIssue(issues[k]))])

\* github.js categorizeIssues
categorizeIssues(issues) == categorizeLoop(issues, 1, EmptyColumns)

(***************************************************************************)
(* github.js updateIssueLabels, lines 176-191: the label list of the PUT   *)
(* body, from the labels of the current issue and the new status.          *)
(***************************************************************************)
NewLabelsMutAppendOnly(currentLabels, newStatus) ==
    Append(currentLabels, Label("status", newStatus))

NewLabels(currentLabels, newStatus) ==
    Append(SelectSeq(currentLabels, LAMBDA l : ~Includes(statusLabels, l)),
           Label("status", newStatus))

(***************************************************************************)
(* The API gateway worker (unnamed/part_003).                              *)
(***************************************************************************)
\* part_003:70, the ceiling of checkRateLimit
RateCeiling == 10
\* part_003:73, expirationTtl of a rate counter, seconds
RateTtl == 3600
\* part_003:128, expirationTtl of a cached issue listing
IssuesTtl == 300
\* part_003:436, expirationTtl of the cached statistics
StatsTtl == 1800
\* part_003:321, expirationTtl of the cached patch notes
PatchNotesTtl == 3600
\* part_003:360, expirationTtl of the cached version info
LatestVersionTtl == 1800

\* part_003:11-16, the default of env.ALLOWED_ORIGINS
allowedOrigins ==
    << "https://support.vros.cat", "https://bugs.vros.cat",
       "http://localhost:5173", "http://localhost:3000" >>

\* part_003:9-22.  A request without an Origin header has origin "none".
getAllowedOriginMutEcho(origin) == origin

getAllowedOrigin(origin) ==
    IF Includes(allowedOrigins, origin) THEN origin ELSE allowedOrigins[1]

\* Client addresses (CF-Connecting-IP; "none" is the missing header) and
\* the key the handler derives (part_003:142).
Addresses == {"198.51.100.7", "none"}
RateKeyMutOneCounter(ip) == "unknown"
RateKey(ip) == IF ip = "none" THEN "unknown" ELSE ip
RateKeys == {RateKey(ip) : ip \in Addresses}

\* X-App-Token values ("none" is the missing header) and
\* token.startsWith('vros-') (part_003:50).
Tokens == {"vros-1736700000000-k3j9x2m1q", "letmein"}
StartsWithVros(token) == token = "vros-1736700000000-k3j9x2m1q"
\* A token without the prefix that the operator may have put in env.TOKENS.
ProvisionedToken == "partner-7c1e90ab"
AllTokens == Tokens \cup {ProvisionedToken}

\* Paths and queries of the requests of the model.
LabelsPath == "/api/issues/42/labels"
IsLabelsPath(path) == path = LabelsPath
Queries == {"", "state=open"}

\* Cache keys: part_003:97, :283, :336, :375.
IssuesKey(q) == IF q = "" THEN "issues:" ELSE "issues:?state=open"
CacheKeys == {IssuesKey(q) : q \in Queries} \cup {"patch-notes", "latest-version", "stats"}

\* A key-value entry that is absent, and the read of an entry: Workers KV
\* returns null for a key whose expirationTtl has run out.
LiveMutIgnoreExpiry(entry) == entry.has

Live(entry) == entry.has /\ gNow < entry.expires

\* part_003:480-522, the routing of fetch after the OPTIONS short circuit.
Route(method, path) ==
    IF path = "/api/issues" /\ method = "GET" THEN "issues"
    ELSE IF path = "/api/submit-bug" /\ method = "POST" THEN "submit"
    ELSE IF IsLabelsPath(path) /\ method = "PUT" THEN "labels"
    ELSE IF path = "/api/patch-notes" /\ method = "GET" THEN "patchNotes"
    ELSE IF path = "/api/latest-version" /\ method = "GET" THEN "latestVersion"
    ELSE IF path = "/api/stats" /\ method = "GET" THEN "stats"
    ELSE IF path = "/api/health" THEN "health"
    ELSE "notFound"

\* part_003:68-72, the test of checkRateLimit on the counter it read
\* (0 stands for no live counter).
LimitReachedMutOffByOne(count) == count > RateCeiling

LimitReached(count) == count >= RateCeiling

\* part_003:73-75, the count checkRateLimit stores: the count read plus one,
\* '1' when there was none.
CountAfterMutNoIncrement(count) == IF count = 0 THEN 1 ELSE count

CountAfter(count) == IF count = 0 THEN 1 ELSE count + 1

\* part_003:193-197, the labels of the issue handleBugSubmit creates.
\* body.severity / body.category are "" when the body does not give them.
SubmitLabels(body, isFromApp) ==
    <<Label("", "bug")>>
      \o (IF body.severity # "" THEN <<Label("severity", body.severity)>> ELSE <<>>)
      \o (IF body.category # "" THEN <<Label("category", body.category)>> ELSE <<>>)
      \o (IF ~isFromApp THEN <<Label("", "web-submission")>> ELSE <<>>)

\* Request bodies.  json: the body parses as JSON; isNull: it parses to null,
\* of which no member can be read; title, description: the field is present
\* and not empty; labels: "absent" | "string" | "empty" | "array" (the labels
\* field of a PUT body).
\* list: the elements of the labels array where a specification follows them.
Body(j, t, d, sev, cat, lab) ==
    [json |-> j, isNull |-> FALSE, title |-> t, description |-> d,
     severity |-> sev, category |-> cat, labels |-> lab, list |-> <<>>]
NoBody == Body(FALSE, FALSE, FALSE, "", "", "absent")
\* The JSON text null.
NullBody == [Body(TRUE, FALSE, FALSE, "", "", "absent") EXCEPT !.isNull = TRUE]

\* issue: the number in the path of a request for one issue, where a
\* specification follows the upstream's issues (0 otherwise).
Request(m, p, q, ip, tok, org, b) ==
    [method |-> m, path |-> p, query |-> q, ip |-> ip, token |-> tok,
     origin |-> org, body |-> b, issue |-> 0]

NoResponse == [kind |-> "none"]

\* The upstream credential, env.GITHUB_TOKEN.
GithubToken == "env.GITHUB_TOKEN"

\* The values of the worker's environment that go into an upstream call: its
\* URL and its Authorization header (part_003:104-106, :201-205, :254-258,
\* :388-392).
UpstreamSent == {GithubToken, "env.GITHUB_OWNER", "env.GITHUB_REPO"}

\* What the text of an upstream answer is made of: the tracker's own data.
UpstreamAnswer == {"upstream answer"}

\* part_003:219-222, the details member of handleBugSubmit's error body.
ErrorDetailsMutEchoRequest(sent, answer) == answer \cup sent

ErrorDetails(sent, answer) == answer

\* The values a response body is built from: literals of the worker's code
\* and, where the handler copies from it, the upstream's answer (part_003:
\* 120-136, :220-223, :232-237, :274-275, :424-438).
BodyValues(body, xcache) ==
    IF xcache # ""
    THEN IF body.kind \in {"issues", "stats"} THEN UpstreamAnswer ELSE {"literal"}
    ELSE IF body = "errorDetails"
    THEN {"literal"} \cup ErrorDetails(UpstreamSent, UpstreamAnswer)
    ELSE IF body \in {"created", "labels"} THEN {"literal"} \cup UpstreamAnswer
    ELSE {"literal"}

\* A response built by the worker: status, Access-Control-Allow-Origin,
\* whether the body is JSON, the X-Cache header, what the body carries, and
\* the values its body and headers are built from.
Response(status, cors, xcache, body) ==
    [kind |-> "response", status |-> status, cors |-> cors, json |-> TRUE,
     xcache |-> xcache, body |-> body,
     values |-> BodyValues(body, xcache) \cup {cors}]

\* part_003:474-477, the answer to OPTIONS.
Preflight(cors) ==
    [kind |-> "response", status |-> 204, cors |-> cors, json |-> FALSE,
     xcache |-> "", body |-> "empty", values |-> {cors}]

\* The promise fetch() returned was rejected: the handler's failure was not
\* turned into a response by the worker's code.
Unhandled == [kind |-> "unhandled"]

\* What a cached or fetched body carries: which resource, the upstream's
\* content version it shows, whether every upstream call it was composed
\* from had succeeded, and, of a listing, the issues.
Data(kind, ver, ok) == [kind |-> kind, ver |-> ver, ok |-> ok, listing |-> <<>>]
NoData == Data("none", 0, TRUE)

IdleSlot ==
    [pc |-> "idle", req |-> Request("GET", "/", "", "none", "none", "none", NoBody),
     count |-> 0, stored |-> NoEntry, isFromApp |-> FALSE, labels |-> <<>>,
     data |-> NoData, startWrites |-> 0, hitWrites |-> 0, ordinal |-> 0,
     threw |-> FALSE, resp |-> NoResponse,
     \* history of the request: its number, the clock at its receipt, the
     \* number of the latest request received when it ended, its upstream
     \* calls, whether validateAppToken returned and what its lookup found,
     \* the age of the rate counter that rejected it, and whether an earlier
     \* request of the same address passed the gate and then failed
     began |-> 0, recvAt |-> 0, ended |-> 0, calls |-> 0, classified |-> FALSE,
     wasRecorded |-> FALSE, windowAge |-> 0, priorFailure |-> FALSE,
     \* history: another request was in the worker while this one was
     overlapped |-> FALSE,
     \* history: the expiry of the cache entry the request was answered from
     hitExpires |-> 0,
     \* history: the branch of fetch's routing the request took
     handler |-> "none",
     \* history: the labels member of the body handleUpdateLabels sent upstream
     forwarded |-> <<>>]

Slots == 1..NumSlots

\* The worker before its first request, env.TOKENS holding `records`.
GatewayStartWith(records) ==
    /\ gNow = 0
    /\ kvRate = [k \in RateKeys |-> NoEntry]
    /\ kvTokens = records
    /\ kvCache = [k \in CacheKeys |-> NoEntry]
    /\ upWrites = 0
    /\ slots = [s \in Slots |-> IdleSlot]
    /\ gRequests = 0
    /\ gAdvances = 0
    /\ gGate = [k \in RateKeys |-> <<>>]

GatewayStart == GatewayStartWith([t \in AllTokens |-> NoEntry])

(***************************************************************************)
(* Mapper specification: a listing is built issue by issue and label by    *)
(* label, then categorizeIssues or updateIssueLabels is applied to it.     *)
(***************************************************************************)
TotalLabels(issues) ==
    LET RECURSIVE Sum(_)
        Sum(k) == IF k = 0 THEN 0 ELSE Len(issues[k].labels) + Sum(k - 1)
    IN  Sum(Len(issues))

MapperStart ==
    /\ mIssues = <<>>
    /\ mPhase = "build"
    /\ mColumns = EmptyColumns
    /\ mTarget = "none"
    /\ mSubmitted = <<>>

\* The upstream returns one more issue (numbers are assigned in order).
MapperAddIssue(st) ==
    /\ mPhase = "build"
    /\ Len(mIssues) < MaxIssues
    /\ mIssues' = Append(mIssues, Issue(Len(mIssues) + 1, st, <<>>))
    /\ UNCHANGED <<mPhase, mColumns, mTarget, mSubmitted>>
    /\ UNCHANGED <<boardVars, gatewayVars, filterVars, bFailed>>

\* The last issue carries one more label (label sets hold no duplicates).
MapperAddLabel(l) ==
    /\ mPhase = "build"
    /\ Len(mIssues) > 0
    /\ TotalLabels(mIssues) < MaxLabels
    /\ ~Includes(mIssues[Len(mIssues)].labels, l)
    /\ mIssues' = [mIssues EXCEPT ![Len(mIssues)].labels = Append(@, l)]
    /\ UNCHANGED <<mPhase, mColumns, mTarget, mSubmitted>>
    /\ UNCHANGED <<boardVars, gatewayVars, filterVars, bFailed>>

MapperCategorize ==
    /\ mPhase = "build"
    /\ mColumns' = categorizeIssues(mIssues)
    /\ mPhase' = "categorized"
    /\ UNCHANGED <<mIssues, mTarget, mSubmitted>>
    /\ UNCHANGED <<boardVars, gatewayVars, filterVars, bFailed>>

\* updateIssueLabels on the last issue of the listing, for a drop in column col.
MapperUpdateLabels(col) ==
    /\ mPhase = "build"
    /\ Len(mIssues) > 0
    /\ mTarget' = col
    /\ mSubmitted' = NewLabels(mIssues[Len(mIssues)].labels, statusMap(col))
    /\ mPhase' = "updated"
    /\ UNCHANGED <<mIssues, mColumns>>
    /\ UNCHANGED <<boardVars, gatewayVars, filterVars, bFailed>>

\* The PUT of updateIssueLabels succeeds (github.js:194-197): the upstream
\* replaces the issue's labels by the submitted list (part_003:253-265).
MapperApply ==
    /\ mPhase = "updated"
    /\ mIssues' = [mIssues EXCEPT ![Len(mIssues)].labels = mSubmitted]
    /\ mPhase' = "applied"
    /\ UNCHANGED <<mColumns, mTarget, mSubmitted>>
    /\ UNCHANGED <<boardVars, gatewayVars, filterVars, bFailed>>

\* updateIssueLabels is called once more on the same issue: before its first
\* list was submitted ("repeated"), or on the labels its first list left at
\* the upstream ("reupdated").
MapperUpdateAgain(col) ==
    /\ mPhase \in {"updated", "applied"}
    /\ mTarget' = col
    /\ mSubmitted' = NewLabels(mIssues[Len(mIssues)].labels, statusMap(col))
    /\ mPhase' = IF mPhase = "updated" THEN "repeated" ELSE "reupdated"
    /\ UNCHANGED <<mIssues, mColumns>>
    /\ UNCHANGED <<boardVars, gatewayVars, filterVars, bFailed>>

\* categorizeIssues on the listing that holds the issue with its new labels.
MapperRecategorize ==
    /\ mPhase = "applied"
    /\ mColumns' = categorizeIssues(mIssues)
    /\ mPhase' = "recategorized"
    /\ UNCHANGED <<mIssues, mTarget, mSubmitted>>
    /\ UNCHANGED <<boardVars, gatewayVars, filterVars, bFailed>>

MapperStep ==
    \/ \E st \in {"open", "closed"} : MapperAddIssue(st)
    \/ \E l \in LabelPool : MapperAddLabel(l)
    \/ MapperCategorize
    \/ \E col \in ColumnSet : MapperUpdateLabels(col)
    \/ MapperApply
    \/ \E col \in ColumnSet : MapperUpdateAgain(col)
    \/ MapperRecategorize

(***************************************************************************)
(* The Kanban board (KanbanColumn.jsx, KanbanBoard component) and the      *)
(* calls it makes through the API client (github.js).                      *)
(***************************************************************************)
\* github.js:17, this.cacheTimeout, ms
cacheTimeout == 30000

Cards == 1..NumCards

\* getIssues() is called with no filters, so the listing asks for
\* state=open (github.js:69): the upstream answers with its open issues.
OpenListing(issues) == SelectSeq(issues, LAMBDA i : i.state = "open")

\* Array.prototype.splice(index, 0, x) on a copy of seq (index is 0-based and
\* an index past the end appends).
InsertAt(seq, index, x) ==
    LET k == IF index > Len(seq) THEN Len(seq) ELSE index
    IN  SubSeq(seq, 1, k) \o <<x>> \o SubSeq(seq, k + 1, Len(seq))

HasCard(col, id) == \E i \in DOMAIN col : col[i].number = id

CardById(col, id) == col[CHOOSE i \in DOMAIN col : col[i].number = id]

\* KanbanColumn.jsx:188-199, the optimistic update of onDragEnd.
OptimisticMoveMutKeepSource(issues, src, id, dst, dstIndex) ==
    [issues EXCEPT ![dst] = InsertAt(@, dstIndex, CardById(issues[src], id))]

OptimisticMove(issues, src, id, dst, dstIndex) ==
    LET movedIssue == CardById(issues[src], id)
        removed == [issues EXCEPT
                       ![src] = SelectSeq(@, LAMBDA c : c.number # id)]
    IN  [removed EXCEPT ![dst] = InsertAt(@, dstIndex, movedIssue)]

\* KanbanColumn.jsx:227, setIssues(issues) in the catch block: the board
\* goes back to the issues the handler closed over.
RollbackMutKeepCurrent(current, closedOver) == current

Rollback(current, closedOver) == closedOver

UpstreamLabels(n) ==
    LET i == CHOOSE i \in DOMAIN upIssues : upIssues[i].number = n
    IN  upIssues[i].labels

NoTrack == [live |-> FALSE, rolled |-> FALSE, pre |-> EmptyColumns]

\* KanbanColumn.jsx:119-124, the filters before any is set.
NoFilters == [severity |-> "all", category |-> "all", assignee |-> "all",
              search |-> <<>>]

\* The board before its first load; the upstream holds NumCards issues.
BoardBlank ==
    /\ bIssues = EmptyColumns
    /\ bLoading = TRUE
    /\ bError = "none"
    /\ bCache = NoEntry
    /\ bNow = 0
    /\ bLoads = 0
    /\ bPending = <<>>
    /\ bEvents = 0
    /\ bTrack = NoTrack
    /\ fFilters = NoFilters
    /\ fIsFiltered = FALSE
    /\ bFailed = {}

\* The upstream's issues when the board is opened: open or closed, no labels.
BoardStart ==
    /\ upIssues \in {iss \in [Cards -> {Issue(n, st, <<>>) :
                                           n \in Cards, st \in {"open", "closed"}}] :
                        \A n \in Cards : iss[n].number = n}
    /\ BoardBlank

\* The board is not open (the mapper and gateway specifications).
BoardClosed ==
    /\ upIssues = [n \in Cards |-> Issue(n, "open", <<>>)]
    /\ BoardBlank

Untrack == bTrack' = NoTrack

\* loadIssues (mount, the 30 s interval, the retry and refresh buttons) with
\* getIssues answered from the client's cache: github.js:77-81, then
\* setIssues(data), setLoading(false).
BoardLoadCached ==
    /\ bCache.has /\ bNow - bCache.timestamp < cacheTimeout
    /\ bEvents < MaxEvents
    /\ bEvents' = bEvents + 1
    /\ bError' = "none"
    /\ bIssues' = bCache.data
    /\ bLoading' = FALSE
    /\ Untrack
    /\ UNCHANGED <<upIssues, bCache, bNow, bLoads, bPending>>
    /\ UNCHANGED <<mapperVars, gatewayVars, filterVars, bFailed>>

\* loadIssues with no live cache entry: setError(null) and the request of
\* github.js:84 leaves.
BoardLoadRequest ==
    /\ ~(bCache.has /\ bNow - bCache.timestamp < cacheTimeout)
    /\ bEvents < MaxEvents
    /\ bEvents' = bEvents + 1
    /\ bError' = "none"
    /\ bLoads' = bLoads + 1
    /\ Untrack
    /\ UNCHANGED <<upIssues, bIssues, bLoading, bCache, bNow, bPending>>
    /\ UNCHANGED <<mapperVars, gatewayVars, filterVars, bFailed>>

\* The listing arrives: categorize, cache, setIssues, setLoading(false).
BoardLoadArrive ==
    /\ bLoads > 0
    /\ bLoads' = bLoads - 1
    /\ LET data == categorizeIssues(OpenListing(upIssues))
       IN  /\ bCache' = [has |-> TRUE, data |-> data, timestamp |-> bNow]
           /\ bIssues' = data
    /\ bLoading' = FALSE
    /\ Untrack
    /\ UNCHANGED <<bEvents, upIssues, bError, bNow, bPending>>
    /\ UNCHANGED <<mapperVars, gatewayVars, filterVars, bFailed>>

\* The request fails: setError(err.message), setLoading(false).
BoardLoadFail ==
    /\ bLoads > 0
    /\ bLoads' = bLoads - 1
    /\ bError' = "load"
    /\ bLoading' = FALSE
    /\ Untrack
    /\ UNCHANGED <<bEvents, upIssues, bIssues, bCache, bNow, bPending>>
    /\ UNCHANGED <<mapperVars, gatewayVars, filterVars, bFailed>>

\* The index the drag-and-drop library reports for a card of column col.
IndexIn(col, id) == (CHOOSE i \in DOMAIN col : col[i].number = id) - 1

\* onDragEnd that returns early (lines 171-186): dropped outside every column
\* (destination is null), ...
BoardDragOutside ==
    /\ ~bLoading
    /\ bEvents < MaxEvents
    /\ bEvents' = bEvents + 1
    /\ Untrack
    /\ UNCHANGED <<upIssues, bIssues, bLoading, bError, bCache, bNow, bLoads,
                   bPending>>
    /\ UNCHANGED <<mapperVars, gatewayVars, filterVars, bFailed>>

\* ... dropped where it was taken, or the card is not (any more) in the
\* column the drag started from.
BoardDragIgnored(id, src, srcIndex, dst, dstIndex) ==
    /\ ~bLoading
    /\ bEvents < MaxEvents
    /\ \/ (src = dst /\ srcIndex = dstIndex)
       \/ ~HasCard(bIssues[src], id)
    /\ bEvents' = bEvents + 1
    /\ Untrack
    /\ UNCHANGED <<upIssues, bIssues, bLoading, bError, bCache, bNow, bLoads,
                   bPending>>
    /\ UNCHANGED <<mapperVars, gatewayVars, filterVars, bFailed>>

\* onDragEnd within one column: the optimistic update alone (lines 188-201).
BoardDragReorder(id, src, dstIndex) ==
    /\ ~bLoading
    /\ bEvents < MaxEvents
    /\ HasCard(bIssues[src], id)
    /\ IndexIn(bIssues[src], id) # dstIndex
    /\ bIssues' = OptimisticMove(bIssues, src, id, src, dstIndex)
    /\ bEvents' = bEvents + 1
    /\ Untrack
    /\ UNCHANGED <<upIssues, bLoading, bError, bCache, bNow, bLoads, bPending>>
    /\ UNCHANGED <<mapperVars, gatewayVars, filterVars, bFailed>>

\* onDragEnd to another column: the optimistic update, then updateIssueLabels
\* starts with its first request, GET /issues/<number> (lines 188-218).
BoardDragMove(id, src, dst, dstIndex) ==
    /\ ~bLoading
    /\ src # dst
    /\ HasCard(bIssues[src], id)
    /\ bEvents < MaxEvents
    /\ bEvents' = bEvents + 1
    /\ bIssues' = OptimisticMove(bIssues, src, id, dst, dstIndex)
    /\ bPending' = Append(bPending,
           [number |-> id, newStatus |-> statusMap(dst), closedOver |-> bIssues,
            stage |-> "get", newLabels |-> <<>>,
            \* history: the column the card was dragged from
            fromCol |-> src])
    /\ bTrack' = [live |-> TRUE, rolled |-> FALSE, pre |-> bIssues]
    /\ UNCHANGED <<upIssues, bLoading, bError, bCache, bNow, bLoads>>
    /\ UNCHANGED <<mapperVars, gatewayVars, filterVars, bFailed>>

RemoveAt(seq, k) == SubSeq(seq, 1, k - 1) \o SubSeq(seq, k + 1, Len(seq))

\* The tracking of the latest drag survives only the steps of its own call.
TrackStep(k, failed) ==
    bTrack' = IF bTrack.live /\ ~bTrack.rolled /\ k = Len(bPending)
              THEN [bTrack EXCEPT !.rolled = failed]
              ELSE NoTrack

\* updateIssueLabels: the current issue arrives, the new label list is
\* computed and the PUT leaves (github.js:185-197).
BoardUpdateGetOk(k) ==
    /\ k \in DOMAIN bPending
    /\ bPending[k].stage = "get"
    /\ bPending' = [bPending EXCEPT
           ![k].stage = "put",
           ![k].newLabels = NewLabels(UpstreamLabels(bPending[k].number),
                                      bPending[k].newStatus)]
    /\ TrackStep(k, FALSE)
    /\ UNCHANGED <<bEvents, upIssues, bIssues, bLoading, bError, bCache, bNow, bLoads>>
    /\ UNCHANGED <<mapperVars, gatewayVars, filterVars, bFailed>>

\* updateIssueLabels: the PUT succeeded upstream; this.cache.clear().
BoardUpdatePutOk(k) ==
    /\ k \in DOMAIN bPending
    /\ bPending[k].stage = "put"
    /\ upIssues' = [n \in Cards |->
                      IF n = bPending[k].number
                      THEN [upIssues[n] EXCEPT !.labels = bPending[k].newLabels]
                      ELSE upIssues[n]]
    /\ bCache' = NoEntry
    /\ bPending' = RemoveAt(bPending, k)
    /\ Untrack
    /\ UNCHANGED <<bEvents, bIssues, bLoading, bError, bNow, bLoads>>
    /\ UNCHANGED <<mapperVars, gatewayVars, filterVars, bFailed>>

\* updateIssueLabels throws (either request failed): the catch block of
\* onDragEnd, lines 225-229.
BoardUpdateFail(k) ==
    /\ k \in DOMAIN bPending
    /\ bIssues' = Rollback(bIssues, bPending[k].closedOver)
    /\ bError' = "update"
    /\ bPending' = RemoveAt(bPending, k)
    /\ TrackStep(k, TRUE)
    /\ bFailed' = bFailed \cup {[number |-> bPending[k].number,
                                  fromCol |-> bPending[k].fromCol]}
    /\ UNCHANGED <<bEvents, upIssues, bLoading, bCache, bNow, bLoads>>
    /\ UNCHANGED <<mapperVars, gatewayVars, filterVars>>

\* The browser's clock runs on by one cache lifetime.
BoardTick ==
    /\ bEvents < MaxEvents
    /\ bEvents' = bEvents + 1
    /\ bNow' = bNow + cacheTimeout
    /\ UNCHANGED <<upIssues, bIssues, bLoading, bError, bCache, bLoads,
                   bPending, bTrack>>
    /\ UNCHANGED <<mapperVars, gatewayVars, filterVars, bFailed>>

BoardInit == MapperStart /\ BoardStart /\ GatewayStart

BoardNext ==
    \/ BoardLoadCached
    \/ BoardLoadRequest
    \/ BoardLoadArrive
    \/ BoardLoadFail
    \/ BoardDragOutside
    \/ \E id \in Cards, src \in ColumnSet :
          \/ /\ HasCard(bIssues[src], id)
             /\ BoardDragIgnored(id, src, IndexIn(bIssues[src], id), src,
                                 IndexIn(bIssues[src], id))
          \/ BoardDragIgnored(id, src, 0, src, 1)
    \/ \E id \in Cards, src \in ColumnSet, di \in 0..NumCards :
          BoardDragReorder(id, src, di)
    \/ \E id \in Cards, src, dst \in ColumnSet, di \in 0..NumCards :
          BoardDragMove(id, src, dst, di)
    \/ \E k \in DOMAIN bPending : BoardUpdateGetOk(k)
    \/ \E k \in DOMAIN bPending : BoardUpdatePutOk(k)
    \/ \E k \in DOMAIN bPending : BoardUpdateFail(k)
    \/ BoardTick

SpecBoard == BoardInit /\ [][BoardNext]_vars

\* C9: when a single drag to a different column is followed by the failure of
\* its label mutation and nothing else happened in between, the board after
\* the failure equals the board before the drag.
C9_RollbackRestoresPreDrag ==
    (bTrack.live /\ bTrack.rolled) => bIssues = bTrack.pre

\* C9 witness: such a failure has happened, and the drag had moved a card.
C9_Witness ==
    /\ bTrack.live /\ bTrack.rolled
    /\ bError = "update"
    /\ \E c \in ColumnSet : Len(bTrack.pre[c]) > 0
(***************************************************************************)
(* Overlap specification: cross-column drags whose label updates all fail, *)
(* overlapping each other and the board's refreshes, while an issue may be *)
(* closed at the upstream.                                                 *)
(***************************************************************************)
\* Somebody closes an issue at the upstream: the next listing the client
\* fetches (github.js:84) differs from the one it holds.
UpstreamClose(n) ==
    /\ upIssues[n].state = "open"
    /\ bEvents < MaxEvents
    /\ bEvents' = bEvents + 1
    /\ upIssues' = [upIssues EXCEPT ![n].state = "closed"]
    /\ UNCHANGED <<bIssues, bLoading, bError, bCache, bNow, bLoads, bPending, bTrack>>
    /\ UNCHANGED <<mapperVars, gatewayVars, filterVars, bFailed>>

OverlapInit == MapperStart /\ BoardClosed /\ GatewayStart

OverlapNext ==
    \/ BoardLoadCached
    \/ BoardLoadRequest
    \/ BoardLoadArrive
    \/ \E id \in Cards, src, dst \in ColumnSet, di \in 0..NumCards :
          BoardDragMove(id, src, dst, di)
    \/ \E k \in DOMAIN bPending : BoardUpdateFail(k)
    \/ UpstreamClose(1)
    \/ BoardTick

SpecOverlap == OverlapInit /\ [][OverlapNext]_vars

\* The issue numbers of the cards a board holds.
OnBoard(cols) == {n \in Cards : \E c \in ColumnSet : HasCard(cols[c], n)}

\* C28: for any interleaving of two overlapping drags and auto-refresh loads,
\* once every in-flight label mutation has failed and been rolled back, each
\* card moved by a failed drag is back in the column it occupied before that
\* drag, and the board is not reset to a snapshot older than the latest
\* completed refresh (it holds the cards of that refresh).
C28_RollbackTotal ==
    (bPending = <<>> /\ ~bLoading /\ bCache.has) =>
        /\ \A f \in bFailed :
              (/\ Cardinality({g \in bFailed : g.number = f.number}) = 1
               /\ f.number \in OnBoard(bCache.data))
                  => HasCard(bIssues[f.fromCol], f.number)
        /\ OnBoard(bIssues) = OnBoard(bCache.data)

(***************************************************************************)
(* The board's filter bar (KanbanColumn.jsx:234-279) and the client-side   *)
(* search and filter of github.js:243-304.  Texts are sequences of         *)
(* characters.                                                             *)
(***************************************************************************)
\* The characters of the words label names are made of.
Chars ==
    "status" :> <<"s", "t", "a", "t", "u", "s">> @@
    "backlog" :> <<"b", "a", "c", "k", "l", "o", "g">> @@
    "todo" :> <<"t", "o", "d", "o">> @@
    "in-progress" :> <<"i", "n", "-", "p", "r", "o", "g", "r", "e", "s", "s">> @@
    "testing" :> <<"t", "e", "s", "t", "i", "n", "g">> @@
    "done" :> <<"d", "o", "n", "e">> @@
    "blocked" :> <<"b", "l", "o", "c", "k", "e", "d">> @@
    "bug" :> <<"b", "u", "g">> @@
    "severity" :> <<"s", "e", "v", "e", "r", "i", "t", "y">> @@
    "high" :> <<"h", "i", "g", "h">> @@
    "category" :> <<"c", "a", "t", "e", "g", "o", "r", "y">> @@
    "ui" :> <<"u", "i">> @@
    "web-submission" :> <<"w", "e", "b", "-", "s", "u", "b", "m", "i", "s", "s", "i", "o", "n">>

\* label.name
NameOf(l) ==
    IF l.fam = "" THEN Chars[l.val] ELSE Chars[l.fam] \o <<":">> \o Chars[l.val]

\* String.prototype.toLowerCase, on the letters the model's texts use.
LowerChar(ch) ==
    CASE ch = "C" -> "c" [] ch = "R" -> "r" [] ch = "U" -> "u" [] ch = "I" -> "i"
      [] OTHER -> ch
toLowerCase(str) == [i \in DOMAIN str |-> LowerChar(str[i])]

\* String.prototype.includes
StrIncludes(str, term) ==
    \E i \in 0..(Len(str) - Len(term)) : SubSeq(str, i + 1, i + Len(term)) = term

\* Number.prototype.toString, for the issue numbers of the model.
NumberToString(n) == <<CASE n = 1 -> "1" [] n = 2 -> "2" [] n = 3 -> "3" [] OTHER -> "4">>

\* github.js:243-259, the test searchIssues applies to a card.
SearchHit(card, query) ==
    LET searchTerm == toLowerCase(query)
    IN  \/ StrIncludes(toLowerCase(card.title), searchTerm)
        \/ StrIncludes(toLowerCase(card.description), searchTerm)
        \/ StrIncludes(NumberToString(card.number), searchTerm)
        \/ \E i \in DOMAIN card.labels :
               StrIncludes(toLowerCase(NameOf(card.labels[i])), searchTerm)

searchIssues(issues, query) ==
    [c \in ColumnSet |-> SelectSeq(issues[c], LAMBDA card : SearchHit(card, query))]

\* github.js:265-283, the test filterIssues applies to a card (the board
\* sets no date range).
FilterHitMutAnyFilter(card, filters) ==
    \/ filters.severity # "all" /\ card.severity = filters.severity
    \/ filters.category # "all" /\ card.category = filters.category
    \/ filters.assignee # "all" /\ card.assignee = filters.assignee

FilterHit(card, filters) ==
    /\ filters.severity # "all" => card.severity = filters.severity
    /\ filters.category # "all" => card.category = filters.category
    /\ filters.assignee # "all" =>
          (card.assignee # "none" /\ card.assignee = filters.assignee)

filterIssues(issues, filters) ==
    [c \in ColumnSet |-> SelectSeq(issues[c], LAMBDA card : FilterHit(card, filters))]

\* KanbanColumn.jsx:249-265 and :279, the issues the columns are given.
getFilteredIssues(issues, filters, isFiltered) ==
    IF ~isFiltered THEN issues
    ELSE LET searched == IF filters.search # <<>>
                         THEN searchIssues(issues, filters.search) ELSE issues
         IN  IF filters.severity # "all" \/ filters.category # "all"
                  \/ filters.assignee # "all"
             THEN filterIssues(searched, filters) ELSE searched

displayIssues == getFilteredIssues(bIssues, fFilters, fIsFiltered)

\* KanbanColumn.jsx:234-246
handleFilterChange(filterType, value) ==
    /\ ~bLoading /\ bError = "none"
    /\ LET newFilters == [fFilters EXCEPT ![filterType] = value]
       IN  /\ fFilters' = newFilters
           /\ fIsFiltered' = (\/ newFilters.severity # "all"
                              \/ newFilters.category # "all"
                              \/ newFilters.assignee # "all"
                              \/ newFilters.search # <<>>)
    /\ UNCHANGED <<mapperVars, boardVars, gatewayVars, bFailed>>

\* KanbanColumn.jsx:268-276
clearFilters ==
    /\ ~bLoading /\ bError = "none"
    /\ fIsFiltered
    /\ fFilters' = NoFilters
    /\ fIsFiltered' = FALSE
    /\ UNCHANGED <<mapperVars, boardVars, gatewayVars, bFailed>>

\* The issues the upstream holds when the filtered board is opened.
FilterTitles == {<<"C", "r", "a", "s", "h">>, <<"u", "i", " ", "l", "a", "g">>}
FilterLabelSets ==
    { <<>>, <<Label("category", "ui"), Label("status", "todo")>>,
      <<Label("severity", "high"), Label("category", "ui")>> }

FilterStart ==
    /\ upIssues \in {iss \in [Cards -> {[Issue(n, "open", ls) EXCEPT !.title = t] :
                                           n \in Cards, ls \in FilterLabelSets,
                                           t \in FilterTitles}] :
                        \A n \in Cards : iss[n].number = n}
    /\ BoardBlank

FilterInit == MapperStart /\ FilterStart /\ GatewayStart

\* What the user types in the search box and picks in the two selects
\* (KanbanColumn.jsx:309-347).
SearchTexts == {<<>>, <<"C", "r">>, <<"u", "i">>, <<"1">>}
SeverityOptions == {"all", "high", "medium"}
CategoryOptions == {"all", "ui", "general"}

FilterNext ==
    \/ BoardLoadCached
    \/ BoardLoadRequest
    \/ BoardLoadArrive
    \/ BoardLoadFail
    \/ \E q \in SearchTexts : handleFilterChange("search", q)
    \/ \E v \in SeverityOptions : handleFilterChange("severity", v)
    \/ \E v \in CategoryOptions : handleFilterChange("category", v)
    \/ clearFilters

SpecFilter == FilterInit /\ [][FilterNext]_vars

\* A card matches the filter bar: the search text is empty or occurs, letter
\* case aside, in its title, description, number or a label name, and its
\* severity, category and assignee are those of every filter that is set.
MatchesBar(card) ==
    /\ \/ fFilters.search = <<>>
       \/ \E text \in {card.title, card.description, NumberToString(card.number)}
                      \cup {NameOf(card.labels[i]) : i \in DOMAIN card.labels} :
              StrIncludes(toLowerCase(text), toLowerCase(fFilters.search))
    /\ fFilters.severity \in {"all", card.severity}
    /\ fFilters.category \in {"all", card.category}
    /\ fFilters.assignee = "all"
          \/ (card.assignee # "none" /\ fFilters.assignee = card.assignee)

\* The columns show exactly the matching cards of the loaded snapshot, each
\* in its column and in the snapshot's order; with no filter set they show
\* the whole snapshot.
DisplayExact ==
    (~bLoading /\ bError = "none") =>
        /\ \A c \in ColumnSet :
              displayIssues[c] = SelectSeq(bIssues[c], MatchesBar)
        /\ fFilters = NoFilters => displayIssues = bIssues

\* A change of the filter bar leaves the snapshot, the client's cache and the
\* requests in flight as they were, and the worker receives nothing.
FilterStepLocal ==
    fFilters' # fFilters =>
        UNCHANGED <<bIssues, bCache, bLoads, bPending, upIssues, gRequests>>

\* C26: the cards displayed in a column are exactly the cards of that column
\* in the loaded snapshot that match the search text and every active
\* severity, category and assignee filter (AND); searching and filtering
\* never move a card to another column and never make a gateway request, and
\* clearing the filters displays the full snapshot again.
C26_FilteredDisplay == [](DisplayExact) /\ [][FilterStepLocal]_vars

\* C26 witness: a search text and both selects are set, one loaded card is
\* displayed and another is hidden.
C26_Witness ==
    /\ ~bLoading /\ bError = "none" /\ fIsFiltered
    /\ fFilters.search # <<>> /\ fFilters.severity # "all"
    /\ fFilters.category # "all"
    /\ \E c \in ColumnSet : Len(displayIssues[c]) > 0
    /\ \E c \in ColumnSet : Len(displayIssues[c]) < Len(bIssues[c])

MapperInit == MapperStart /\ BoardClosed /\ GatewayStart

MapperNext == MapperStep

SpecMapper == MapperInit /\ [][MapperNext]_vars

(***************************************************************************)
(* Properties of the mapper.                                               *)
(***************************************************************************)
LastIssue == mIssues[Len(mIssues)]

CountIn(seq, P(_)) == Cardinality({i \in DOMAIN seq : P(seq[i])})

SetOf(seq, P(_)) == {seq[i] : i \in {j \in DOMAIN seq : P(seq[j])}}

\* The column ids whose cards include issue number n.
ColumnsHolding(cols, n) ==
    {c \in ColumnSet : \E i \in DOMAIN cols[c] : cols[c][i].number = n}

\* How many cards of all columns carry issue number n.
CardsOf(cols, n) ==
    LET RECURSIVE Sum(_)
        Sum(k) == IF k = 0 THEN 0
                  ELSE CountIn(cols[Columns[k]], LAMBDA card : card.number = n)
                         + Sum(k - 1)
    IN  Sum(Len(Columns))

TotalCards(cols) ==
    LET RECURSIVE Sum(_)
        Sum(k) == IF k = 0 THEN 0 ELSE Len(cols[Columns[k]]) + Sum(k - 1)
    IN  Sum(Len(Columns))

\* C6 (as stated): for every current label set and every target column, the
\* label set updateIssueLabels submits holds at most one label of the form
\* status:*, every non-status label of the current set and no other
\* non-status label.
C6_AtMostOneStatusForm ==
    mPhase = "updated" =>
        /\ CountIn(mSubmitted, IsStatusForm) <= 1
        /\ SetOf(mSubmitted, LAMBDA l : ~IsStatusForm(l))
             = SetOf(LastIssue.labels, LAMBDA l : ~IsStatusForm(l))

\* C6 (amended): the submitted label set holds exactly one of the five
\* recognized status labels, namely status:<target>, every label of the
\* current set outside those five (kept in order, status:* labels outside the
\* five included), and no other label.
C6_OneRecognizedStatus ==
    mPhase = "updated" =>
        /\ CountIn(mSubmitted, IsRecognizedStatus) = 1
        /\ Includes(mSubmitted, Label("status", statusMap(mTarget)))
        /\ SelectSeq(mSubmitted, LAMBDA l : ~IsRecognizedStatus(l))
             = SelectSeq(LastIssue.labels, LAMBDA l : ~IsRecognizedStatus(l))
        /\ CountIn(mSubmitted, LAMBDA l : TRUE) = Cardinality(SetOf(mSubmitted, LAMBDA l : TRUE))

\* C6 witness: a move of an issue that carries another recognized status label,
\* a status label outside the five and an opaque label.
C6_Witness ==
    /\ mPhase = "updated"
    /\ \E i \in DOMAIN LastIssue.labels :
          /\ IsRecognizedStatus(LastIssue.labels[i])
          /\ LastIssue.labels[i] # Label("status", statusMap(mTarget))
    /\ \E i \in DOMAIN LastIssue.labels : ~IsRecognizedStatus(LastIssue.labels[i])

\* C7: an issue that carries a recognized status:<name> label (and no second
\* one) is placed in column <name>, open or closed; an issue with no
\* recognized status label is placed in done when it is closed.
C7_StatusLabelDecidesColumn ==
    mPhase = "categorized" =>
        \A k \in DOMAIN mIssues :
            LET recognized == SetOf(mIssues[k].labels, IsRecognizedStatus)
            IN  /\ \A c \in ColumnSet :
                      recognized = {Label("status", statusMap(c))}
                          => ColumnsHolding(mColumns, mIssues[k].number) = {c}
                /\ (recognized = {} /\ mIssues[k].state = "closed")
                      => ColumnsHolding(mColumns, mIssues[k].number) = {"done"}

\* C8: categorizeIssues places every input issue in exactly one of the five
\* columns, none lost and none duplicated; an open issue with no status label
\* goes to backlog and a closed issue with no status label goes to done.
C8_ExactlyOneColumn ==
    mPhase = "categorized" =>
        /\ TotalCards(mColumns) = Len(mIssues)
        /\ \A k \in DOMAIN mIssues :
              /\ CardsOf(mColumns, mIssues[k].number) = 1
              /\ CountIn(mIssues[k].labels, IsStatusForm) = 0 =>
                    ColumnsHolding(mColumns, mIssues[k].number) =
                        {IF mIssues[k].state = "closed" THEN "done" ELSE "backlog"}

\* C8 witness: a listing with an open and a closed issue, neither with a
\* status label, has been categorized.
C8_Witness ==
    /\ mPhase = "categorized"
    /\ \E j, k \in DOMAIN mIssues :
          /\ mIssues[j].state = "open" /\ mIssues[k].state = "closed"
          /\ CountIn(mIssues[j].labels, IsStatusForm) = 0
          /\ CountIn(mIssues[k].labels, IsStatusForm) = 0

\* A second call of updateIssueLabels with the target of the first: on the
\* same starting labels it computes the same list, and on the labels its own
\* list left it computes that list again.
SecondDeltaSame ==
    /\ (mPhase = "updated" /\ mPhase' = "repeated" /\ mTarget' = mTarget)
          => mSubmitted' = mSubmitted
    /\ (mPhase = "applied" /\ mPhase' = "reupdated" /\ mTarget' = mTarget)
          => mSubmitted' = mSubmitted /\ mSubmitted' = LastIssue.labels

\* C24: the label delta is idempotent: computing it twice from the same
\* starting set and target column gives the same set, and computing it again
\* from its own result with the same target column returns that result
\* unchanged.
C24_LabelDeltaIdempotent == [][SecondDeltaSame]_vars

\* C24 witness: the delta has been computed again from its own result, which
\* holds a label outside the five status labels besides the target's.
C24_Witness ==
    /\ mPhase = "reupdated"
    /\ mSubmitted = LastIssue.labels
    /\ Len(mSubmitted) > 1
    /\ \E i \in DOMAIN mSubmitted : mSubmitted[i] = Label("status", "blocked")

\* C30: round trip between columns and labels: for every column C and every
\* issue, open or closed, once the issue's labels are replaced by the label
\* delta computed for target C, the column derived for that issue is C.
C30_ColumnRoundTrip ==
    mPhase = "recategorized" =>
        ColumnsHolding(mColumns, LastIssue.number) = {mTarget}

\* The first label of family fam in labels, <<>> when there is none; for the
\* status family only the five recognized labels count.
FirstOfFamily(labels, fam) ==
    LET of == SelectSeq(labels, LAMBDA l :
                  l.fam = fam /\ (fam = "status" => IsRecognizedStatus(l)))
    IN  IF of = <<>> THEN <<>> ELSE <<of[1]>>

\* C31: when an issue carries several labels of one family (status, severity
\* or category), the derived column, severity or category is that of the
\* first label of the family in the order the upstream returned the labels
\* (stated for open issues; a closed issue is the subject of C7).
C31_FirstLabelWins ==
    mPhase = "categorized" =>
        \A k \in DOMAIN mIssues :
            LET issue == mIssues[k]
                status == FirstOfFamily(issue.labels, "status")
                severity == FirstOfFamily(issue.labels, "severity")
                category == FirstOfFamily(issue.labels, "category")
            IN  issue.state = "open" =>
                  /\ status # <<>> =>
                        \A c \in ColumnSet :
                            statusMap(c) = status[1].val
                                => ColumnsHolding(mColumns, issue.number) = {c}
                  /\ \A c \in ColumnSet : \A i \in DOMAIN mColumns[c] :
                        mColumns[c][i].number = issue.number =>
                          /\ severity # <<>>
                                => mColumns[c][i].severity = severity[1].val
                          /\ category # <<>>
                                => mColumns[c][i].category = category[1].val

(***************************************************************************)
(* The worker's steps.  A handler runs from one await to the next in one   *)
(* step; slots[s].pc names the await the request of slot s is parked at.   *)
(***************************************************************************)
Cors(s) == getAllowedOrigin(slots[s].req.origin)

\* The request of slot s ends with response r.
Finish(s, r) ==
    [slots[s] EXCEPT !.pc = "done", !.resp = r, !.count = 0, !.stored = NoEntry,
                     !.data = NoData, !.ended = gRequests]

\* An await of the handler of slot s throws.  fetch returns the handler's
\* promise without awaiting it (part_003:485-506), so the rejection passes by
\* the catch block of part_003:524-533 and fetch's own promise is rejected.
HandlerThrew(s) == [Finish(s, Unhandled) EXCEPT !.threw = TRUE]

InFlight(s) == slots[s].pc \notin {"idle", "done"}

AllAtRest == \A s \in Slots : ~InFlight(s)

\* part_003:472, the test of the pre-flight short circuit.
IsPreflightMutNever(req) == FALSE

IsPreflight(req) == req.method = "OPTIONS"

\* A request that passed the gate ended in a failure: a 4xx/5xx response
\* other than the gate's own 429, or a rejected promise.
FailedPastGate(resp) ==
    \/ resp.kind = "unhandled"
    \/ resp.kind = "response" /\ resp.status >= 400 /\ resp.status # 429

\* fetch (part_003:469-522): CORS headers, the OPTIONS short circuit, the
\* routing, and the handler's run up to its first await.
GwAccept(s, req, limit) ==
    /\ slots[s].pc \in {"idle", "done"}
    /\ gRequests < limit
    /\ gRequests' = gRequests + 1
    /\ LET cors == getAllowedOrigin(req.origin)
           h == Route(req.method, req.path)
           old == slots[s]
           fresh == [IdleSlot EXCEPT
                       !.req = req, !.startWrites = upWrites,
                       !.began = gRequests + 1, !.recvAt = gNow,
                       !.handler = IF IsPreflight(req) THEN "preflight" ELSE h,
                       !.ended = gRequests + 1,
                       !.overlapped = \E t \in Slots \ {s} : InFlight(t),
                       !.priorFailure =
                           /\ old.req.ip = req.ip
                           /\ \/ old.priorFailure
                              \/ old.ordinal > 0 /\ FailedPastGate(old.resp)]
           next ==
             IF IsPreflight(req)
             THEN [fresh EXCEPT !.pc = "done", !.resp = Preflight(cors)]
             ELSE IF h = "health"
             THEN [fresh EXCEPT !.pc = "done",
                                !.resp = Response(200, cors, "", "health")]
             ELSE IF h = "notFound"
             THEN [fresh EXCEPT !.pc = "done",
                                !.resp = Response(404, cors, "", "error")]
             ELSE IF h = "issues" THEN [fresh EXCEPT !.pc = "issuesCacheGet"]
             ELSE IF h = "submit" THEN [fresh EXCEPT !.pc = "rateGet"]
             ELSE IF h = "labels" THEN [fresh EXCEPT !.pc = "labelsParse"]
             ELSE IF h = "stats" THEN [fresh EXCEPT !.pc = "statsCacheGet"]
             ELSE [fresh EXCEPT !.pc = "staticCacheGet"]
       IN  slots' = [t \in Slots |->
                       IF t = s THEN next
                       ELSE IF InFlight(t) THEN [slots[t] EXCEPT !.overlapped = TRUE]
                       ELSE slots[t]]
    /\ UNCHANGED <<gNow, kvRate, kvTokens, kvCache, upWrites, gAdvances, gGate>>

\* A request of a client the model does not follow any further.
GwReceive(s, req, limit) ==
    /\ GwAccept(s, req, limit)
    /\ UNCHANGED <<mapperVars, boardVars, filterVars, bFailed>>

\* checkRateLimit, part_003:65-72: the counter is read and tested.
GwRateGetMutCountRejected(s) ==
    /\ slots[s].pc = "rateGet"
    /\ LET key == RateKey(slots[s].req.ip)
           count == IF Live(kvRate[key]) THEN kvRate[key].value ELSE 0
       IN  IF LimitReached(count)
           THEN /\ slots' = [slots EXCEPT ![s] =
                               [Finish(s, Response(429, Cors(s), "", "error"))
                                   EXCEPT !.ordinal = Len(gGate[key]) + 1,
                                          !.windowAge = gNow - kvRate[key].created]]
                /\ gGate' = [gGate EXCEPT ![key] = Append(@, FALSE)]
                /\ kvRate' = [kvRate EXCEPT ![key].value = count + 1,
                                            ![key].expires = gNow + RateTtl]
           ELSE /\ slots' = [slots EXCEPT ![s].pc = "ratePut", ![s].count = count,
                                          ![s].ordinal = Len(gGate[key]) + 1]
                /\ gGate' = [gGate EXCEPT ![key] = Append(@, TRUE)]
                /\ kvRate' = kvRate
    /\ UNCHANGED <<gNow, kvTokens, kvCache, upWrites, gRequests, gAdvances>>
    /\ UNCHANGED <<mapperVars, boardVars, filterVars, bFailed>>

GwRateGet(s) ==
    /\ slots[s].pc = "rateGet"
    /\ LET key == RateKey(slots[s].req.ip)
           count == IF Live(kvRate[key]) THEN kvRate[key].value ELSE 0
       IN  IF LimitReached(count)
           THEN /\ slots' = [slots EXCEPT ![s] =
                               [Finish(s, Response(429, Cors(s), "", "error"))
                                   EXCEPT !.ordinal = Len(gGate[key]) + 1,
                                          !.windowAge = gNow - kvRate[key].created]]
                /\ gGate' = [gGate EXCEPT ![key] = Append(@, FALSE)]
           ELSE /\ slots' = [slots EXCEPT ![s].pc = "ratePut", ![s].count = count,
                                          ![s].ordinal = Len(gGate[key]) + 1]
                /\ gGate' = [gGate EXCEPT ![key] = Append(@, TRUE)]
    /\ UNCHANGED <<gNow, kvRate, kvTokens, kvCache, upWrites, gRequests, gAdvances>>
    /\ UNCHANGED <<mapperVars, boardVars, filterVars, bFailed>>

\* checkRateLimit, part_003:73-78: the counter read plus one (or '1') is
\* stored with a new expirationTtl; then handleBugSubmit goes on to
\* validateAppToken, which returns false at once for a missing token.
GwRatePut(s) ==
    /\ slots[s].pc = "ratePut"
    /\ kvRate' = [kvRate EXCEPT ![RateKey(slots[s].req.ip)] =
                     [has |-> TRUE, value |-> CountAfter(slots[s].count),
                      expires |-> gNow + RateTtl,
                      \* history: when the counter of this window was created
                      created |-> IF slots[s].count = 0 THEN gNow
                                  ELSE kvRate[RateKey(slots[s].req.ip)].created]]
    /\ slots' = [slots EXCEPT
                   ![s].pc = IF slots[s].req.token = "none" THEN "submitParse"
                             ELSE "tokenGet",
                   ![s].classified = slots[s].req.token = "none",
                   ![s].count = 0]
    /\ UNCHANGED <<gNow, kvTokens, kvCache, upWrites, gRequests, gAdvances, gGate>>
    /\ UNCHANGED <<mapperVars, boardVars, filterVars, bFailed>>

\* validateAppToken, part_003:39-60: the token's record is read.
GwTokenGetMutRecordedOnly(s) ==
    /\ slots[s].pc = "tokenGet"
    /\ LET stored == kvTokens[slots[s].req.token]
       IN  slots' = [slots EXCEPT
                       ![s].stored = stored,
                       ![s].wasRecorded = stored.has,
                       ![s].classified = ~stored.has,
                       ![s].pc = IF stored.has THEN "tokenPut" ELSE "submitParse"]
    /\ UNCHANGED <<gNow, kvRate, kvTokens, kvCache, upWrites, gRequests,
                   gAdvances, gGate>>
    /\ UNCHANGED <<mapperVars, boardVars, filterVars, bFailed>>

GwTokenGet(s) ==
    /\ slots[s].pc = "tokenGet"
    /\ LET stored == kvTokens[slots[s].req.token]
           trusted == stored.has \/ StartsWithVros(slots[s].req.token)
       IN  slots' = [slots EXCEPT
                       ![s].stored = stored,
                       ![s].wasRecorded = stored.has,
                       ![s].classified = ~trusted,
                       ![s].pc = IF trusted THEN "tokenPut" ELSE "submitParse"]
    /\ UNCHANGED <<gNow, kvRate, kvTokens, kvCache, upWrites, gRequests,
                   gAdvances, gGate>>
    /\ UNCHANGED <<mapperVars, boardVars, filterVars, bFailed>>

\* validateAppToken, part_003:42-46 and :52-56: the record read is stored
\* with a new lastUsed, or a new record is stored.
GwTokenPut(s) ==
    /\ slots[s].pc = "tokenPut"
    /\ kvTokens' = [kvTokens EXCEPT ![slots[s].req.token] =
                      IF slots[s].stored.has
                      THEN [slots[s].stored EXCEPT !.lastUsed = gNow]
                      ELSE [has |-> TRUE, created |-> gNow, lastUsed |-> gNow,
                            type |-> "app-generated"]]
    /\ slots' = [slots EXCEPT ![s].pc = "submitParse", ![s].isFromApp = TRUE,
                              ![s].classified = TRUE, ![s].stored = NoEntry]
    /\ UNCHANGED <<gNow, kvRate, kvCache, upWrites, gRequests, gAdvances, gGate>>
    /\ UNCHANGED <<mapperVars, boardVars, filterVars, bFailed>>

\* handleBugSubmit, part_003:157-216: request.json() (which throws on a body
\* that is not JSON), the required fields (body.title throws on null), the
\* labels, and the POST to the upstream leaves.
GwSubmitParse(s) ==
    /\ slots[s].pc = "submitParse"
    /\ LET body == slots[s].req.body
       IN  slots' = [slots EXCEPT ![s] =
             IF ~body.json \/ body.isNull THEN HandlerThrew(s)
             ELSE IF ~body.title \/ ~body.description
             THEN Finish(s, Response(400, Cors(s), "", "error"))
             ELSE [slots[s] EXCEPT !.pc = "createFetch", !.calls = @ + 1,
                                   !.labels = SubmitLabels(body, slots[s].isFromApp)]]
    /\ UNCHANGED <<gNow, kvRate, kvTokens, kvCache, upWrites, gRequests,
                   gAdvances, gGate>>
    /\ UNCHANGED <<mapperVars, boardVars, filterVars, bFailed>>

\* The upstream's status on a call it rejects.
RejectedStatus == 403

\* handleBugSubmit, part_003:218-239: the upstream answered the POST
\* ("ok": 2xx, the issue exists; "rejected": another status), or the call
\* failed on the network ("neterr": fetch throws).
GwCreateReturn(s, outcome) ==
    /\ slots[s].pc = "createFetch"
    /\ upWrites' = IF outcome = "ok" THEN upWrites + 1 ELSE upWrites
    /\ slots' = [slots EXCEPT ![s] =
         IF outcome = "ok" THEN Finish(s, Response(200, Cors(s), "", "created"))
         ELSE IF outcome = "rejected"
         THEN Finish(s, Response(RejectedStatus, Cors(s), "", "errorDetails"))
         ELSE HandlerThrew(s)]
    /\ UNCHANGED <<gNow, kvRate, kvTokens, kvCache, gRequests, gAdvances, gGate>>
    /\ UNCHANGED <<mapperVars, boardVars, filterVars, bFailed>>


\* A read or write of a key-value namespace fails: the await throws.
GwKvFail(s) ==
    /\ slots[s].pc \in {"rateGet", "ratePut", "tokenGet", "tokenPut",
                        "issuesCacheGet", "issuesCachePut", "staticCacheGet",
                        "staticCachePut", "statsCacheGet", "statsCachePut"}
    /\ slots' = [slots EXCEPT ![s] = HandlerThrew(s)]
    /\ UNCHANGED <<gNow, kvRate, kvTokens, kvCache, upWrites, gRequests,
                   gAdvances, gGate>>
    /\ UNCHANGED <<mapperVars, boardVars, filterVars, bFailed>>

\* A cache hit: the cached text is the response body (X-Cache: HIT).
Hit(s, entry) ==
    [Finish(s, Response(200, Cors(s), "HIT", entry.value))
        EXCEPT !.hitWrites = entry.writes, !.hitExpires = entry.expires]

CacheEntry(value, ttl) ==
    [has |-> TRUE, value |-> value, expires |-> gNow + ttl, writes |-> upWrites]

\* handleGetIssues, part_003:96-116: the cache is read; on a miss the
\* listing is asked of the upstream.
GwIssuesCacheGet(s) ==
    /\ slots[s].pc = "issuesCacheGet"
    /\ LET entry == kvCache[IssuesKey(slots[s].req.query)]
       IN  slots' = [slots EXCEPT ![s] =
             IF Live(entry) THEN Hit(s, entry)
             ELSE [slots[s] EXCEPT !.pc = "issuesFetch", !.calls = @ + 1]]
    /\ UNCHANGED <<gNow, kvRate, kvTokens, kvCache, upWrites, gRequests,
                   gAdvances, gGate>>
    /\ UNCHANGED <<mapperVars, boardVars, filterVars, bFailed>>

\* handleGetIssues, part_003:110-125: the upstream's answer.
GwIssuesReturn(s, outcome) ==
    /\ slots[s].pc = "issuesFetch"
    /\ slots' = [slots EXCEPT ![s] =
         IF outcome = "ok"
         THEN [slots[s] EXCEPT !.pc = "issuesCachePut",
                               !.data = [Data("issues", upWrites, TRUE) EXCEPT
                                            !.listing = OpenListing(upIssues)]]
         ELSE IF outcome = "rejected"
         THEN Finish(s, Response(RejectedStatus, Cors(s), "", "error"))
         ELSE HandlerThrew(s)]
    /\ UNCHANGED <<gNow, kvRate, kvTokens, kvCache, upWrites, gRequests,
                   gAdvances, gGate>>
    /\ UNCHANGED <<mapperVars, boardVars, filterVars, bFailed>>

\* handleGetIssues, part_003:128-136: the listing is cached for 5 minutes
\* and returned (X-Cache: MISS).
GwIssuesCachePutMutNoStore(s) ==
    /\ slots[s].pc = "issuesCachePut"
    /\ slots' = [slots EXCEPT ![s] =
                   Finish(s, Response(200, Cors(s), "MISS", slots[s].data))]
    /\ UNCHANGED <<gNow, kvRate, kvTokens, kvCache, upWrites, gRequests,
                   gAdvances, gGate>>
    /\ UNCHANGED <<mapperVars, boardVars, filterVars, bFailed>>

GwIssuesCachePut(s) ==
    /\ slots[s].pc = "issuesCachePut"
    /\ kvCache' = [kvCache EXCEPT ![IssuesKey(slots[s].req.query)] =
                      CacheEntry(slots[s].data, IssuesTtl)]
    /\ slots' = [slots EXCEPT ![s] =
                   Finish(s, Response(200, Cors(s), "MISS", slots[s].data))]
    /\ UNCHANGED <<gNow, kvRate, kvTokens, upWrites, gRequests, gAdvances, gGate>>
    /\ UNCHANGED <<mapperVars, boardVars, filterVars, bFailed>>

\* handlePatchNotes and handleLatestVersion (part_003:281-370): the key, the
\* lifetime and the static content of the route of slot s.
StaticKey(s) ==
    IF slots[s].req.path = "/api/patch-notes" THEN "patch-notes" ELSE "latest-version"
StaticTtl(s) ==
    IF slots[s].req.path = "/api/patch-notes" THEN PatchNotesTtl ELSE LatestVersionTtl

GwStaticCacheGet(s) ==
    /\ slots[s].pc = "staticCacheGet"
    /\ LET entry == kvCache[StaticKey(s)]
       IN  slots' = [slots EXCEPT ![s] =
             IF Live(entry) THEN Hit(s, entry)
             ELSE [slots[s] EXCEPT !.pc = "staticCachePut",
                                   !.data = Data(StaticKey(s), 0, TRUE)]]
    /\ UNCHANGED <<gNow, kvRate, kvTokens, kvCache, upWrites, gRequests,
                   gAdvances, gGate>>
    /\ UNCHANGED <<mapperVars, boardVars, filterVars, bFailed>>

GwStaticCachePut(s) ==
    /\ slots[s].pc = "staticCachePut"
    /\ kvCache' = [kvCache EXCEPT ![StaticKey(s)] =
                      CacheEntry(slots[s].data, StaticTtl(s))]
    /\ slots' = [slots EXCEPT ![s] =
                   Finish(s, Response(200, Cors(s), "MISS", slots[s].data))]
    /\ UNCHANGED <<gNow, kvRate, kvTokens, upWrites, gRequests, gAdvances, gGate>>
    /\ UNCHANGED <<mapperVars, boardVars, filterVars, bFailed>>

\* handleStats, part_003:375-409: the cache is read; on a miss the three
\* upstream calls leave together.
GwStatsCacheGet(s) ==
    /\ slots[s].pc = "statsCacheGet"
    /\ LET entry == kvCache["stats"]
       IN  slots' = [slots EXCEPT ![s] =
             IF Live(entry) THEN Hit(s, entry)
             ELSE [slots[s] EXCEPT !.pc = "statsFetch", !.calls = @ + 3]]
    /\ UNCHANGED <<gNow, kvRate, kvTokens, kvCache, upWrites, gRequests,
                   gAdvances, gGate>>
    /\ UNCHANGED <<mapperVars, boardVars, filterVars, bFailed>>

\* handleStats, part_003:387-433, once the three calls (repository, open
\* issues, closed issues) have ended.  Promise.all rejects when a call fails
\* on the network.  No response.ok is tested: a rejected call's JSON error
\* object is read like an answer.  Of the repository it gives undefined
\* counts; of the open issues it has no Link header, so the repository's
\* count is used; of the closed issues it has no filter method, so
\* calculateAvgResolutionTime throws.
StatsThrows(repo, open, closed) ==
    \/ "neterr" \in {repo, open, closed}
    \/ closed = "rejected"

GwStatsReturn(s, repo, open, closed) ==
    /\ slots[s].pc = "statsFetch"
    /\ slots' = [slots EXCEPT ![s] =
         IF StatsThrows(repo, open, closed) THEN HandlerThrew(s)
         ELSE [slots[s] EXCEPT
                  !.pc = "statsCachePut",
                  !.data = Data("stats", upWrites, repo = "ok" /\ open = "ok")]]
    /\ UNCHANGED <<gNow, kvRate, kvTokens, kvCache, upWrites, gRequests,
                   gAdvances, gGate>>
    /\ UNCHANGED <<mapperVars, boardVars, filterVars, bFailed>>

\* handleStats, part_003:436-444: the statistics are cached for 30 minutes
\* and returned.
GwStatsCachePut(s) ==
    /\ slots[s].pc = "statsCachePut"
    /\ kvCache' = [kvCache EXCEPT !["stats"] = CacheEntry(slots[s].data, StatsTtl)]
    /\ slots' = [slots EXCEPT ![s] =
                   Finish(s, Response(200, Cors(s), "MISS", slots[s].data))]
    /\ UNCHANGED <<gNow, kvRate, kvTokens, upWrites, gRequests, gAdvances, gGate>>
    /\ UNCHANGED <<mapperVars, boardVars, filterVars, bFailed>>

\* handleUpdateLabels, part_003:244-265: request.json(), the labels test
\* (body.labels throws on null; an empty array is truthy and an array), and
\* the PUT to the upstream leaves.
GwLabelsParse(s) ==
    /\ slots[s].pc = "labelsParse"
    /\ LET body == slots[s].req.body
       IN  slots' = [slots EXCEPT ![s] =
             IF ~body.json \/ body.isNull THEN HandlerThrew(s)
             ELSE IF body.labels \notin {"empty", "array"}
             THEN Finish(s, Response(400, Cors(s), "", "error"))
             ELSE [slots[s] EXCEPT !.pc = "labelsFetch", !.calls = @ + 1,
                                   !.forwarded = body.list]]
    /\ UNCHANGED <<gNow, kvRate, kvTokens, kvCache, upWrites, gRequests,
                   gAdvances, gGate>>
    /\ UNCHANGED <<mapperVars, boardVars, filterVars, bFailed>>

\* handleUpdateLabels, part_003:267-277: the upstream's answer to the PUT;
\* on success the upstream has replaced the labels of the issue.
GwLabelsReturn(s, outcome) ==
    /\ slots[s].pc = "labelsFetch"
    /\ upWrites' = IF outcome = "ok" THEN upWrites + 1 ELSE upWrites
    /\ slots' = [slots EXCEPT ![s] =
         IF outcome = "ok" THEN Finish(s, Response(200, Cors(s), "", "labels"))
         ELSE IF outcome = "rejected"
         THEN Finish(s, Response(RejectedStatus, Cors(s), "", "error"))
         ELSE HandlerThrew(s)]
    /\ upIssues' = [n \in Cards |->
                      IF outcome = "ok" /\ n = slots[s].req.issue
                      THEN [upIssues[n] EXCEPT !.labels = slots[s].forwarded]
                      ELSE upIssues[n]]
    /\ UNCHANGED <<gNow, kvRate, kvTokens, kvCache, gRequests, gAdvances, gGate>>
    /\ UNCHANGED <<bIssues, bLoading, bError, bCache, bNow, bLoads, bPending,
                   bEvents, bTrack>>
    /\ UNCHANGED <<mapperVars, filterVars, bFailed>>

\* Time passes while no request is in the worker; a counter whose
\* expirationTtl has run out is gone, and with it the history of its window.
GwAdvance(d) ==
    /\ AllAtRest
    /\ gAdvances < MaxAdvances
    /\ gAdvances' = gAdvances + 1
    /\ gNow' = gNow + d
    /\ gGate' = [k \in RateKeys |->
                   IF kvRate[k].has /\ gNow + d >= kvRate[k].expires
                   THEN <<>> ELSE gGate[k]]
    /\ UNCHANGED <<kvRate, kvTokens, kvCache, upWrites, slots, gRequests>>
    /\ UNCHANGED <<mapperVars, boardVars, filterVars, bFailed>>

GatewayInit == MapperStart /\ BoardClosed /\ GatewayStart

Outcomes == {"ok", "rejected", "neterr"}

(***************************************************************************)
(* Rate-limiter specification: POST /api/submit-bug requests, one after    *)
(* the other, with and without tokens, from two addresses.                 *)
(***************************************************************************)
ValidBody == Body(TRUE, TRUE, TRUE, "", "", "absent")
FullBody == Body(TRUE, TRUE, TRUE, "high", "ui", "absent")
NoTitleBody == Body(TRUE, FALSE, TRUE, "", "", "absent")
NoDescriptionBody == Body(TRUE, TRUE, FALSE, "high", "", "absent")
NotJsonBody == Body(FALSE, FALSE, FALSE, "", "", "absent")

VrosToken == CHOOSE t \in Tokens : StartsWithVros(t)
SupportOrigin == allowedOrigins[1]

Submit(ip, tok, b) ==
    Request("POST", "/api/submit-bug", "", ip, tok, SupportOrigin, b)

RateInputs ==
    { Submit(ip, "none", b) : ip \in Addresses,
                              b \in {ValidBody, NoTitleBody, NotJsonBody} }

RateNext ==
    \/ \E req \in RateInputs : GwReceive(1, req, MaxGateRequests)
    \/ GwRateGet(1)
    \/ GwRatePut(1)
    \/ GwSubmitParse(1)
    \/ \E o \in Outcomes : GwCreateReturn(1, o)
    \/ GwAdvance(RateTtl)

SpecRate == GatewayInit /\ [][RateNext]_vars

Is429(resp) == resp.kind = "response" /\ resp.status = 429

\* C1: for a fixed client address and sequential POST /api/submit-bug
\* requests inside one window, requests 1 to 10 pass the rate gate and the
\* 11th is rejected with 429.
C1_TenPassEleventhRejected ==
    /\ \A k \in RateKeys : \A i \in DOMAIN gGate[k] :
          gGate[k][i] = (i <= RateCeiling)
    /\ \A s \in Slots :
          (slots[s].pc = "done" /\ slots[s].ordinal > 0)
          => (Is429(slots[s].resp) <=> (slots[s].ordinal > RateCeiling))

\* C1 witness: the 11th request of a window has been answered 429.
C1_Witness ==
    \E s \in Slots :
        /\ slots[s].pc = "done"
        /\ slots[s].resp.kind = "response" /\ slots[s].resp.status = 429
        /\ slots[s].ordinal = RateCeiling + 1
        /\ Len(gGate[RateKey(slots[s].req.ip)]) = RateCeiling + 1

RaceInputs == { Submit("198.51.100.7", "none", NoTitleBody) }

(***************************************************************************)
(* Window specification: sequential POST /api/submit-bug requests of one   *)
(* address while the clock moves on by less than the counter's lifetime.   *)
(***************************************************************************)
WindowNext ==
    \/ \E req \in RaceInputs : GwReceive(1, req, MaxGateRequests)
    \/ GwRateGet(1)
    \/ GwRatePut(1)
    \/ GwSubmitParse(1)
    \/ \E d \in {StatsTtl, RateTtl - IssuesTtl} : GwAdvance(d)

SpecWindow == GatewayInit /\ [][WindowNext]_vars

\* C12: the rate window is fixed: the counter of an address expires one hour
\* after the first request of the window and later admitted requests do not
\* extend it, so no request that arrives more than one hour after that first
\* request is rejected.
C12_FixedWindow ==
    \A s \in Slots :
        (slots[s].pc = "done" /\ Is429(slots[s].resp))
            => slots[s].windowAge <= RateTtl

(***************************************************************************)
(* Race specification: POST /api/submit-bug requests of one address that   *)
(* overlap in the worker, within one window (the clock stands still).      *)
(***************************************************************************)
RaceNext ==
    \/ \E s \in Slots, req \in RaceInputs : GwReceive(s, req, MaxGateRequests)
    \/ \E s \in Slots : GwRateGet(s)
    \/ \E s \in Slots : GwRatePut(s)
    \/ \E s \in Slots : GwSubmitParse(s)

SpecRace == GatewayInit /\ [][RaceNext]_vars

Admitted(k) == Cardinality({i \in DOMAIN gGate[k] : gGate[k][i]})

\* C2: for any interleaving of concurrent POST /api/submit-bug requests from
\* one client address within one window, at most 10 requests pass the rate
\* gate.
C2_AtMostCeilingAdmitted ==
    \A k \in RateKeys : Admitted(k) <= RateCeiling

(***************************************************************************)
(* Submission specification: a few POST /api/submit-bug requests, one      *)
(* after the other, with every kind of token and body; the stores and the  *)
(* upstream may fail.                                                      *)
(***************************************************************************)
SubmitInputs ==
    { Submit("198.51.100.7", tok, b) :
        tok \in Tokens \cup {"none"},
        b \in {ValidBody, FullBody, NoTitleBody, NoDescriptionBody, NotJsonBody,
                NullBody} }

SubmitNext ==
    \/ \E req \in SubmitInputs : GwReceive(1, req, MaxSubmitRequests)
    \/ GwRateGet(1)
    \/ GwRatePut(1)
    \/ GwTokenGet(1)
    \/ GwTokenPut(1)
    \/ GwSubmitParse(1)
    \/ \E o \in Outcomes : GwCreateReturn(1, o)
    \/ GwKvFail(1)

SpecSubmit == GatewayInit /\ [][SubmitNext]_vars

\* The request of slot s reached the upstream POST: the gate let it pass and
\* its body was valid.
Accepted(s) == slots[s].labels # <<>>

OfFamily(labels, fam) == SelectSeq(labels, LAMBDA l : l.fam = fam)

OrDefault(given, default) == IF given = "" THEN default ELSE given

\* C10: for every accepted POST /api/submit-bug the labels sent upstream hold
\* bug, exactly one severity label (the body's severity, medium when the body
\* has none), exactly one category label (the body's category, general when
\* the body has none), and web-submission exactly when the token is anonymous.
C10_SubmitLabelSet ==
    \A s \in Slots : Accepted(s) =>
        LET L == slots[s].labels
            b == slots[s].req.body
        IN  /\ Includes(L, Label("", "bug"))
            /\ OfFamily(L, "severity")
                 = <<Label("severity", OrDefault(b.severity, "medium"))>>
            /\ OfFamily(L, "category")
                 = <<Label("category", OrDefault(b.category, "general"))>>
            /\ Includes(L, Label("", "web-submission"))
                 <=> ~StartsWithVros(slots[s].req.token)

\* C5: a request whose handler failed (the body was not JSON, a store
\* failed, the upstream call failed on the network) ends in a 500 JSON
\* response that carries the CORS headers.
C5_FailureGives500 ==
    \A s \in Slots : (slots[s].pc = "done" /\ slots[s].threw) =>
        /\ slots[s].resp.kind = "response"
        /\ slots[s].resp.status = 500
        /\ slots[s].resp.json
        /\ slots[s].resp.cors = Cors(s)

\* C21: a POST /api/submit-bug whose title or description is missing or empty
\* returns 400 and creates no upstream issue.  (Stated of the requests the
\* rate limiter admitted and whose token was classified; the limiter answers
\* the others 429 before the body is read.)
C21_MissingFieldsGive400 ==
    \A s \in Slots :
        (/\ slots[s].pc = "done" /\ slots[s].handler = "submit"
         /\ slots[s].ordinal > 0 /\ slots[s].classified
         /\ (~slots[s].req.body.title \/ ~slots[s].req.body.description))
            => /\ slots[s].resp.kind = "response"
               /\ slots[s].resp.status = 400
               /\ slots[s].calls = 0

(***************************************************************************)
(* Cache specification: reads and writes through the gateway, one after    *)
(* the other, while time passes between them.                              *)
(***************************************************************************)
Get(path, q) == Request("GET", path, q, "198.51.100.7", "none", SupportOrigin, NoBody)

CacheInputs ==
    { Get("/api/issues", q) : q \in Queries }
      \cup { Get(path, "") : path \in {"/api/stats", "/api/patch-notes",
                                       "/api/latest-version"} }
      \cup { Submit("198.51.100.7", "none", ValidBody) }
      \cup { Request("PUT", LabelsPath, "", "198.51.100.7", VrosToken, SupportOrigin,
                     Body(TRUE, FALSE, FALSE, "", "", lab)) : lab \in {"array", "absent"} }

CacheNext ==
    \/ \E req \in CacheInputs : GwReceive(1, req, MaxCacheRequests)
    \/ GwRateGet(1)
    \/ GwRatePut(1)
    \/ GwSubmitParse(1)
    \/ \E o \in Outcomes : GwCreateReturn(1, o)
    \/ GwIssuesCacheGet(1)
    \/ \E o \in Outcomes : GwIssuesReturn(1, o)
    \/ GwIssuesCachePut(1)
    \/ GwStaticCacheGet(1)
    \/ GwStaticCachePut(1)
    \/ GwStatsCacheGet(1)
    \/ \E repo, open, closed \in Outcomes : GwStatsReturn(1, repo, open, closed)
    \/ GwStatsCachePut(1)
    \/ GwLabelsParse(1)
    \/ \E o \in Outcomes : GwLabelsReturn(1, o)
    \/ \E d \in {IssuesTtl, StatsTtl} : GwAdvance(d)

SpecCache == GatewayInit /\ [][CacheNext]_vars

IsCachedRead(req) ==
    req.method = "GET" /\ req.path \in {"/api/issues", "/api/stats"}

\* C3: once a POST /api/submit-bug or a PUT of labels succeeded upstream, no
\* later GET /api/issues or GET /api/stats is answered from a cache entry
\* written before that write.
C3_NoStaleHitAfterWrite ==
    \A s \in Slots :
        (slots[s].pc = "done" /\ IsCachedRead(slots[s].req)
            /\ slots[s].resp.kind = "response" /\ slots[s].resp.xcache = "HIT")
        => slots[s].hitWrites >= slots[s].startWrites

\* C4: a cache entry of the issues listing or of the statistics is written
\* only after the upstream answered 2xx: every entry in the cache was
\* composed from successful upstream calls only.
C4_CacheOnlyAfterSuccess ==
    \A k \in CacheKeys : kvCache[k].has => kvCache[k].value.ok

(***************************************************************************)
(* Request-pair specification: GET /api/issues requests and label updates  *)
(* in two slots, overlapping or one after the other, while time passes.    *)
(***************************************************************************)
PutLabels(lab) ==
    Request("PUT", LabelsPath, "", "198.51.100.7", VrosToken, SupportOrigin,
            Body(TRUE, FALSE, FALSE, "", "", lab))

PairInputs == { Get("/api/issues", q) : q \in Queries } \cup { PutLabels("array") }

\* The two invocations of fetch that hold the pair.
PairSlots == {1, 2}

PairNext ==
    \/ \E s \in PairSlots, req \in PairInputs : GwReceive(s, req, MaxPairRequests)
    \/ \E s \in PairSlots : GwIssuesCacheGet(s)
    \/ \E s \in PairSlots, o \in Outcomes : GwIssuesReturn(s, o)
    \/ \E s \in PairSlots : GwIssuesCachePut(s)
    \/ \E s \in PairSlots : GwLabelsParse(s)
    \/ \E s \in PairSlots, o \in Outcomes : GwLabelsReturn(s, o)
    \/ \E d \in {IssuesTtl, IssuesTtl \div 2} : GwAdvance(d)

SpecPair == GatewayInit /\ [][PairNext]_vars

IsIssuesGet(req) == req.method = "GET" /\ req.path = "/api/issues"

\* Slots a and b hold two GET /api/issues requests with the same query, a
\* received first and b less than 5 minutes after a, both ended.
IssuesPair(a, b) ==
    /\ a # b
    /\ slots[a].pc = "done" /\ slots[b].pc = "done"
    /\ IsIssuesGet(slots[a].req) /\ IsIssuesGet(slots[b].req)
    /\ slots[a].req.query = slots[b].req.query
    /\ slots[a].began < slots[b].began
    /\ slots[b].recvAt - slots[a].recvAt < IssuesTtl

SameBody(a, b) ==
    /\ slots[a].resp.kind = "response" /\ slots[b].resp.kind = "response"
    /\ slots[a].resp.body = slots[b].resp.body

\* C13: two GET /api/issues requests with the same query made within 5
\* minutes of each other, the first finding no cached listing, cause exactly
\* one upstream call, and the second response body is identical to the first.
C13_OneUpstreamCall ==
    \A a, b \in PairSlots :
        (IssuesPair(a, b) /\ slots[a].calls > 0)
            => slots[a].calls + slots[b].calls = 1 /\ SameBody(a, b)

\* C13 as amended: when the first request was answered 200 from the upstream,
\* with no other request in the worker meanwhile, and had ended before the
\* second was received, the two cause exactly one upstream call and the
\* second response is a cache hit with the first's body.
C13_SecondServedFromCache ==
    \A a, b \in PairSlots :
        (/\ IssuesPair(a, b)
         /\ slots[a].calls > 0
         /\ slots[a].resp.kind = "response" /\ slots[a].resp.status = 200
         /\ ~slots[a].overlapped
         /\ slots[a].ended < slots[b].began)
            => /\ slots[a].calls + slots[b].calls = 1
               /\ SameBody(a, b)
               /\ slots[b].resp.xcache = "HIT"

\* C13 witness: the second request came later than the first though within
\* 5 minutes, after a label update had succeeded upstream in between.
C13_Witness ==
    \E a, b \in PairSlots :
        /\ IssuesPair(a, b)
        /\ slots[a].resp.kind = "response" /\ slots[a].resp.xcache = "MISS"
        /\ slots[a].ended < slots[b].began /\ ~slots[a].overlapped
        /\ slots[b].recvAt > slots[a].recvAt
        /\ slots[b].startWrites > slots[a].startWrites
        /\ slots[b].resp.kind = "response" /\ slots[b].resp.xcache = "HIT"

(***************************************************************************)
(* Expiry specification: the gateway's cache of issue listings and the     *)
(* tracker client's in-memory cache, each read and refilled while its      *)
(* clock moves on and the upstream's issues change.                        *)
(***************************************************************************)
\* The browser's clock runs on by d ms.
BoardWait(d) ==
    /\ bEvents < MaxEvents
    /\ bEvents' = bEvents + 1
    /\ bNow' = bNow + d
    /\ UNCHANGED <<upIssues, bIssues, bLoading, bError, bCache, bLoads,
                   bPending, bTrack>>
    /\ UNCHANGED <<mapperVars, gatewayVars, filterVars, bFailed>>

ExpiryInputs == { Get("/api/issues", q) : q \in Queries }

ExpiryNext ==
    \/ \E req \in ExpiryInputs : GwReceive(1, req, MaxExpiryRequests)
    \/ GwIssuesCacheGet(1)
    \/ \E o \in Outcomes : GwIssuesReturn(1, o)
    \/ GwIssuesCachePut(1)
    \/ GwAdvance(IssuesTtl \div 2)
    \/ BoardLoadCached
    \/ BoardLoadRequest
    \/ BoardLoadArrive
    \/ BoardLoadFail
    \/ UpstreamClose(1)
    \/ \E d \in {cacheTimeout, cacheTimeout \div 2} : BoardWait(d)

SpecExpiry == GatewayInit /\ [][ExpiryNext]_vars

\* The gateway's side, on every ended GET /api/issues: a hit was looked up
\* before the entry's expiry and carries the entry's value; a miss answered
\* 200 has stored its body under the request's key with a fresh lifetime.
GatewayCacheExact ==
    \A s \in Slots : (slots[s].pc = "done" /\ IsIssuesGet(slots[s].req)
                        /\ slots[s].resp.kind = "response") =>
        LET entry == kvCache[IssuesKey(slots[s].req.query)]
            resp == slots[s].resp
        IN  /\ resp.xcache = "HIT"
              => /\ slots[s].recvAt < slots[s].hitExpires
                 /\ entry.has /\ resp.body = entry.value
                 /\ slots[s].calls = 0
            /\ (resp.xcache = "MISS" /\ resp.status = 200)
              => /\ entry.has /\ entry.value = resp.body
                 /\ entry.expires = slots[s].recvAt + IssuesTtl

\* The client's side, on every step of getIssues: with an entry younger than
\* cacheTimeout the call returns the entry's data and sends nothing; without
\* one it sends a request; the listing that arrives is stored with the
\* current time.
ClientCacheExact ==
    /\ BoardLoadCached =>
          /\ bCache.has /\ bNow - bCache.timestamp < cacheTimeout
          /\ bIssues' = bCache.data /\ bLoads' = bLoads /\ bCache' = bCache
    /\ (bCache.has /\ bNow - bCache.timestamp >= cacheTimeout /\ bEvents' # bEvents
          /\ bNow' = bNow /\ upIssues' = upIssues)
          => bLoads' = bLoads + 1 /\ bIssues' = bIssues
    /\ BoardLoadArrive =>
          /\ bCache'.has /\ bCache'.timestamp = bNow
          /\ bCache'.data = categorizeIssues(OpenListing(upIssues))
          /\ bIssues' = bCache'.data

\* C14: for the gateway cache and for the tracker client's in-memory cache, a
\* lookup within the entry's time-to-live returns exactly the value stored, a
\* lookup after the time-to-live has elapsed never returns the entry, and the
\* next successful fetch stores a fresh entry under the same key.
C14_CacheLookups == [](GatewayCacheExact) /\ [][ClientCacheExact]_vars

\* C14 witness: the gateway has answered from an entry stored earlier, and
\* the client holds a cached listing, older than its upstream's state, that
\* is still within its lifetime.
C14_Witness ==
    /\ \E s \in Slots :
          /\ slots[s].pc = "done" /\ slots[s].resp.kind = "response"
          /\ slots[s].resp.xcache = "HIT"
          /\ slots[s].recvAt > 0
    /\ bCache.has /\ bNow > bCache.timestamp
    /\ bNow - bCache.timestamp < cacheTimeout
    /\ bIssues = bCache.data
    /\ bCache.data # categorizeIssues(OpenListing(upIssues))

(***************************************************************************)
(* Token specification: POST /api/submit-bug requests, one after the       *)
(* other, with no token, a prefixed one, a provisioned one and an unknown  *)
(* one; env.TOKENS holds the provisioned token from the start.             *)
(***************************************************************************)
ProvisionedRecord ==
    [has |-> TRUE, created |-> 0, lastUsed |-> 0, type |-> "provisioned"]

TokenInit ==
    /\ MapperStart
    /\ BoardClosed
    /\ GatewayStartWith([t \in AllTokens |->
                           IF t = ProvisionedToken THEN ProvisionedRecord ELSE NoEntry])

TokenInputs ==
    { Submit("198.51.100.7", tok, b) :
        tok \in AllTokens \cup {"none"}, b \in {ValidBody, NoTitleBody} }

TokenNext ==
    \/ \E req \in TokenInputs : GwReceive(1, req, MaxSubmitRequests)
    \/ GwRateGet(1)
    \/ GwRatePut(1)
    \/ GwTokenGet(1)
    \/ GwTokenPut(1)
    \/ GwSubmitParse(1)
    \/ \E o \in Outcomes : GwCreateReturn(1, o)
    \/ GwKvFail(1)

SpecToken == TokenInit /\ [][TokenNext]_vars

\* C15: token classification returns trusted exactly when the token is
\* already recorded or begins with vros-; an absent token, or one neither
\* recorded nor so prefixed, returns anonymous and creates no record; an
\* unseen vros- token is recorded on first sight.
C15_TokenClassification ==
    \A s \in Slots : slots[s].classified =>
        LET tok == slots[s].req.token
            given == tok # "none"
        IN  /\ slots[s].isFromApp
                 <=> (given /\ (slots[s].wasRecorded \/ StartsWithVros(tok)))
            /\ (given /\ ~slots[s].isFromApp) => ~kvTokens[tok].has
            /\ (given /\ StartsWithVros(tok)) => kvTokens[tok].has

\* C15 witness: an unseen vros- token has been classified trusted and
\* recorded, after a provisioned token without the prefix had been trusted.
C15_Witness ==
    \E s \in Slots :
        /\ slots[s].classified /\ slots[s].isFromApp
        /\ StartsWithVros(slots[s].req.token) /\ ~slots[s].wasRecorded
        /\ kvTokens[slots[s].req.token].has
        /\ kvTokens[ProvisionedToken].lastUsed = gNow
        /\ gRequests > 1

\* C16: every write-class handler (POST /api/submit-bug and PUT
\* /api/issues/:number/labels) calls the rate limiter and the token store
\* before any upstream call, and returns 429 without an upstream call when
\* admission fails.
C16_WritesGatedBeforeUpstream ==
    \A s \in Slots :
        /\ slots[s].pc \in {"createFetch", "labelsFetch"}
              => slots[s].ordinal > 0 /\ slots[s].classified
        /\ (slots[s].pc = "done" /\ Is429(slots[s].resp)) => slots[s].calls = 0

(***************************************************************************)
(* Label-update specification: PUT /api/issues/:number/labels requests,    *)
(* one after the other, with every kind of body.                           *)
(***************************************************************************)
\* A body {labels: list}.
LabelsBody(list) ==
    [Body(TRUE, FALSE, FALSE, "", "", IF list = <<>> THEN "empty" ELSE "array")
        EXCEPT !.list = list]

LabelsInputs ==
    { Request("PUT", LabelsPath, "", "198.51.100.7", "none", SupportOrigin, b) :
        b \in { Body(TRUE, FALSE, FALSE, "", "", "absent"),
                Body(TRUE, FALSE, FALSE, "", "", "string"),
                LabelsBody(<<>>),
                LabelsBody(<<Label("", "bug")>>),
                LabelsBody(<<Label("", "bug"), Label("status", "todo")>>),
                NotJsonBody, NullBody } }

LabelsNext ==
    \/ \E req \in LabelsInputs : GwReceive(1, req, MaxLabelRequests)
    \/ GwLabelsParse(1)
    \/ \E o \in Outcomes : GwLabelsReturn(1, o)

SpecLabels == GatewayInit /\ [][LabelsNext]_vars

\* C22: a PUT /api/issues/:number/labels whose body has no labels field or a
\* labels field that is not an array returns 400 and makes no upstream call; a
\* body whose labels is an array (the empty array included) is forwarded
\* upstream as the complete label set.
C22_LabelsBodyChecked ==
    \A s \in Slots : (slots[s].pc = "done" /\ slots[s].handler = "labels") =>
        LET body == slots[s].req.body
        IN  /\ body.labels \notin {"empty", "array"}
                  => /\ slots[s].resp.kind = "response"
                     /\ slots[s].resp.status = 400
                     /\ slots[s].calls = 0
            /\ body.labels \in {"empty", "array"}
                  => slots[s].calls = 1 /\ slots[s].forwarded = body.list

(***************************************************************************)
(* Routing specification: requests of every method to every path, one      *)
(* after the other, from allowed, foreign and missing origins.             *)
(***************************************************************************)
Methods == {"GET", "POST", "PUT", "DELETE", "OPTIONS"}
Paths ==
    {"/api/issues", "/api/submit-bug", LabelsPath, "/api/patch-notes",
     "/api/latest-version", "/api/stats", "/api/health", "/api/issues/42",
     "/api/unknown"}
Origins == {allowedOrigins[2], "https://evil.example", "none"}

\* The body a client sends along with a method.
BodyFor(method) ==
    IF method = "POST" THEN ValidBody
    ELSE IF method = "PUT" THEN Body(TRUE, FALSE, FALSE, "", "", "array")
    ELSE NoBody

RouteInputs ==
    { Request(m, p, "", "198.51.100.7", "none", SupportOrigin, BodyFor(m)) :
        m \in Methods, p \in Paths }
      \cup
    { Request(m, p, "", "198.51.100.7", "none", org, BodyFor(m)) :
        m \in {"GET", "OPTIONS"}, p \in {"/api/health", "/api/unknown"},
        org \in Origins }
      \cup
    { Request("GET", "/api/issues", "", "198.51.100.7", "none",
              "https://evil.example", NoBody) }

RouteNext ==
    \/ \E req \in RouteInputs : GwReceive(1, req, MaxRouteRequests)
    \/ GwRateGet(1)
    \/ GwRatePut(1)
    \/ GwSubmitParse(1)
    \/ \E o \in Outcomes : GwCreateReturn(1, o)
    \/ GwIssuesCacheGet(1)
    \/ \E o \in Outcomes : GwIssuesReturn(1, o)
    \/ GwIssuesCachePut(1)
    \/ GwStaticCacheGet(1)
    \/ GwStaticCachePut(1)
    \/ GwStatsCacheGet(1)
    \/ \E repo, open, closed \in Outcomes : GwStatsReturn(1, repo, open, closed)
    \/ GwStatsCachePut(1)
    \/ GwLabelsParse(1)
    \/ \E o \in Outcomes : GwLabelsReturn(1, o)

SpecRoute == GatewayInit /\ [][RouteNext]_vars

\* The handler the list of routes gives a method and a path.
ListedHandler(method, path) ==
    CASE method = "GET" /\ path = "/api/issues" -> "issues"
      [] method = "POST" /\ path = "/api/submit-bug" -> "submit"
      [] method = "PUT" /\ path = LabelsPath -> "labels"
      [] method = "GET" /\ path = "/api/patch-notes" -> "patchNotes"
      [] method = "GET" /\ path = "/api/latest-version" -> "latestVersion"
      [] method = "GET" /\ path = "/api/stats" -> "stats"
      [] method = "GET" /\ path = "/api/health" -> "health"
      [] OTHER -> "notFound"

\* C17: a request whose method and path do not match one of the listed
\* routes is answered 404 and reaches no handler; a matching request reaches
\* exactly its handler.  (Pre-flight requests, which are answered before the
\* routing, are left aside.)
C17_UnlistedIs404 ==
    \A s \in Slots :
        (slots[s].began > 0 /\ slots[s].req.method # "OPTIONS") =>
            LET listed == ListedHandler(slots[s].req.method, slots[s].req.path)
            IN  /\ slots[s].handler = listed
                /\ (listed = "notFound" /\ slots[s].pc = "done")
                      => /\ slots[s].resp.kind = "response"
                         /\ slots[s].resp.status = 404
                         /\ slots[s].calls = 0

\* The top-level member names of a response's JSON body (none for an array
\* and for an empty body).
BodyMembers(resp) ==
    IF resp.xcache # ""
    THEN CASE resp.body.kind = "issues" -> {}
           [] resp.body.kind = "stats" ->
                {"openIssues", "closedIssues", "stars", "watchers", "forks",
                 "avgResolutionTime"}
           [] resp.body.kind = "patch-notes" -> {"versions", "latest"}
           [] OTHER ->
                {"version", "date", "updateAvailable", "downloadUrl",
                 "minimumVersion", "criticalUpdate", "announcement"}
    ELSE CASE resp.body = "error" -> {"error"}
           [] resp.body = "errorDetails" -> {"error", "details"}
           [] resp.body = "created" ->
                {"success", "issueNumber", "issueUrl", "message"}
           [] resp.body = "health" -> {"status", "timestamp"}
           [] OTHER -> {}

\* C18: every response the gateway returns, on success or failure and on
\* every route, has a JSON body with a boolean success field together with
\* either data or error.
C18_UniformEnvelope ==
    \A s \in Slots :
        (slots[s].pc = "done" /\ slots[s].resp.kind = "response") =>
            /\ slots[s].resp.json
            /\ "success" \in BodyMembers(slots[s].resp)
            /\ \/ "data" \in BodyMembers(slots[s].resp)
               \/ "error" \in BodyMembers(slots[s].resp)

\* C23: GET /api/stats fails as a whole whenever one of its three joined
\* upstream calls fails, by network error or by a non-2xx status: no response
\* carries statistics composed from a failed call.
C23_StatsAllOrNothing ==
    \A s \in Slots :
        (/\ slots[s].pc = "done" /\ slots[s].handler = "stats"
         /\ slots[s].resp.kind = "response" /\ slots[s].resp.status = 200)
            => slots[s].resp.body.ok

\* C25: no response body or header the gateway returns to a client contains
\* the value of the upstream credential (GITHUB_TOKEN), the responses that
\* carry an error message or forward upstream details included.
C25_CredentialNotReturned ==
    \A s \in Slots :
        (slots[s].pc = "done" /\ slots[s].resp.kind = "response")
            => GithubToken \notin slots[s].resp.values

\* C25 witness: a submission has been answered with the upstream's error text
\* as details, after an upstream call that carried the credential.
C25_Witness ==
    \E s \in Slots :
        /\ slots[s].pc = "done" /\ slots[s].resp.kind = "response"
        /\ slots[s].resp.status = RejectedStatus /\ slots[s].handler = "submit"
        /\ slots[s].resp.body = "errorDetails"
        /\ slots[s].calls = 1
        /\ UpstreamAnswer \subseteq slots[s].resp.values

AllowList == {allowedOrigins[i] : i \in DOMAIN allowedOrigins}

\* C19: every response's Access-Control-Allow-Origin value is the request's
\* Origin when that origin is in the allow-list and the first configured
\* origin otherwise (also when the request has no Origin); it is never an
\* origin outside the allow-list.
C19_AllowOriginFromList ==
    \A s \in Slots :
        (slots[s].pc = "done" /\ slots[s].resp.kind = "response") =>
            LET origin == slots[s].req.origin
                value == slots[s].resp.cors
            IN  /\ origin \in AllowList => value = origin
                /\ origin \notin AllowList => value = allowedOrigins[1]
                /\ value \in AllowList

\* C19 witness: a request from a foreign origin was answered with the first
\* configured origin, after one from an allowed origin other than the first
\* had been received.
C19_Witness ==
    \E s \in Slots :
        /\ slots[s].pc = "done" /\ slots[s].resp.kind = "response"
        /\ slots[s].req.origin = "https://evil.example"
        /\ slots[s].resp.cors = allowedOrigins[1]
        /\ slots[s].began > 1

\* A pre-flight request, once received, has been answered with an empty 204
\* carrying the CORS headers, without being routed and without any call.
PreflightAnswered ==
    \A s \in Slots :
        (slots[s].began > 0 /\ slots[s].req.method = "OPTIONS") =>
            /\ slots[s].pc = "done"
            /\ slots[s].resp.kind = "response" /\ slots[s].resp.status = 204
            /\ slots[s].resp.body = "empty"
            /\ slots[s].resp.cors \in AllowList
            /\ slots[s].handler = "preflight"
            /\ slots[s].calls = 0 /\ slots[s].ordinal = 0 /\ ~slots[s].classified

\* The step that receives a pre-flight request leaves the stores and the
\* upstream as they were.
PreflightStep ==
    \A s \in Slots :
        (slots'[s].began # slots[s].began /\ slots'[s].req.method = "OPTIONS")
            => UNCHANGED <<kvRate, kvTokens, kvCache, upWrites>>

\* C20: an OPTIONS request to any path returns an empty 204 with CORS headers
\* and touches nothing else: it is not routed, it reads or writes no rate
\* counter, token record or cache entry, and it makes no upstream call.
C20_PreflightShortCircuit == [](PreflightAnswered) /\ [][PreflightStep]_vars

\* C20 witness: OPTIONS to the path of a write route has been answered after
\* a submission of the same address, whose rate counter still stands at 1.
C20_Witness ==
    \E s \in Slots :
        /\ slots[s].pc = "done" /\ slots[s].req.method = "OPTIONS"
        /\ slots[s].req.path = "/api/submit-bug"
        /\ slots[s].resp.kind = "response" /\ slots[s].resp.status = 204
        /\ slots[s].began = 2
        /\ kvRate[RateKey(slots[s].req.ip)].has
        /\ kvRate[RateKey(slots[s].req.ip)].value = 1

(***************************************************************************)
(* Board-and-gateway specification: the tracker client's requests go       *)
(* through the worker, whose stores and upstream are healthy; another      *)
(* client of the API replaces labels; time passes on both clocks.          *)
(***************************************************************************)
\* github.js:35-50, a request of the tracker client in the development build
\* (apiBase ends in /api; the production apiBase has no path at all).
ClientRequest(method, path, query, n, body) ==
    [Request(method, path, query, "198.51.100.7", VrosToken, allowedOrigins[2], body)
        EXCEPT !.issue = n]

\* The path of `/issues/${issueNumber}` (github.js:185); 42 stands for the
\* number, which plays no part in the routing.
IssuePath == "/api/issues/42"

\* response.ok (github.js:51)
ResponseOk(resp) ==
    resp.kind = "response" /\ resp.status >= 200 /\ resp.status <= 299

\* The worker's slot that holds the tracker client's request, and the one of
\* the other client.
BoardSlot == 1
ApiSlot == 2

\* loadIssues with no live cache entry: setError(null) and the request of
\* github.js:84 reaches the worker.
ClientLoadSend ==
    /\ ~(bCache.has /\ bNow - bCache.timestamp < cacheTimeout)
    /\ bEvents < MaxEvents
    /\ slots[BoardSlot].pc = "idle"
    /\ bEvents' = bEvents + 1
    /\ bError' = "none"
    /\ bLoads' = bLoads + 1
    /\ Untrack
    /\ GwAccept(BoardSlot,
                ClientRequest("GET", "/api/issues", "state=open", 0, NoBody),
                MaxJointRequests)
    /\ UNCHANGED <<upIssues, bIssues, bLoading, bCache, bNow, bPending>>
    /\ UNCHANGED <<mapperVars, filterVars, bFailed>>

\* The worker's response to the listing request is read (github.js:51-56,
\* :84-94 and KanbanColumn.jsx:134-141).
ClientLoadAnswer ==
    /\ slots[BoardSlot].pc = "done"
    /\ slots[BoardSlot].req.path = "/api/issues"
    /\ bLoads > 0
    /\ bLoads' = bLoads - 1
    /\ LET resp == slots[BoardSlot].resp
       IN  IF ResponseOk(resp)
           THEN LET data == categorizeIssues(resp.body.listing)
                IN  /\ bCache' = [has |-> TRUE, data |-> data, timestamp |-> bNow]
                    /\ bIssues' = data
                    /\ bError' = bError
           ELSE /\ bError' = "load"
                /\ UNCHANGED <<bCache, bIssues>>
    /\ bLoading' = FALSE
    /\ Untrack
    /\ slots' = [slots EXCEPT ![BoardSlot].pc = "idle"]
    /\ UNCHANGED <<bEvents, upIssues, bNow, bPending>>
    /\ UNCHANGED <<gNow, kvRate, kvTokens, kvCache, upWrites, gRequests,
                   gAdvances, gGate>>
    /\ UNCHANGED <<mapperVars, filterVars, bFailed>>

\* updateIssueLabels: its first request, GET /issues/<number>, reaches the
\* worker (github.js:185).
ClientGetSend(k) ==
    /\ k \in DOMAIN bPending
    /\ bPending[k].stage = "get"
    /\ slots[BoardSlot].pc = "idle"
    /\ bPending' = [bPending EXCEPT ![k].stage = "getSent"]
    /\ GwAccept(BoardSlot,
                ClientRequest("GET", IssuePath, "", bPending[k].number, NoBody),
                MaxJointRequests)
    /\ UNCHANGED <<upIssues, bIssues, bLoading, bError, bCache, bNow, bLoads,
                   bEvents, bTrack>>
    /\ UNCHANGED <<mapperVars, filterVars, bFailed>>

\* The worker's response to that request is read: request() throws unless
\* response.ok (github.js:51-54), and onDragEnd's catch block rolls back
\* (KanbanColumn.jsx:225-229); otherwise the new label list is computed.
ClientGetAnswer(k) ==
    /\ k \in DOMAIN bPending
    /\ bPending[k].stage = "getSent"
    /\ slots[BoardSlot].pc = "done"
    /\ slots[BoardSlot].req.path = IssuePath
    /\ IF ResponseOk(slots[BoardSlot].resp)
       THEN /\ bPending' = [bPending EXCEPT
                   ![k].stage = "put",
                   ![k].newLabels = NewLabels(UpstreamLabels(bPending[k].number),
                                              bPending[k].newStatus)]
            /\ TrackStep(k, FALSE)
            /\ UNCHANGED <<bIssues, bError, bFailed>>
       ELSE /\ bIssues' = Rollback(bIssues, bPending[k].closedOver)
            /\ bError' = "update"
            /\ bPending' = RemoveAt(bPending, k)
            /\ TrackStep(k, TRUE)
            /\ bFailed' = bFailed \cup {[number |-> bPending[k].number,
                                          fromCol |-> bPending[k].fromCol]}
    /\ slots' = [slots EXCEPT ![BoardSlot].pc = "idle"]
    /\ UNCHANGED <<bEvents, upIssues, bLoading, bCache, bNow, bLoads>>
    /\ UNCHANGED <<gNow, kvRate, kvTokens, kvCache, upWrites, gRequests,
                   gAdvances, gGate>>
    /\ UNCHANGED <<mapperVars, filterVars>>

\* Another client of the API moves issue n to column col: it puts the label
\* list of that move to /api/issues/<n>/labels.
ApiPutLabels(n, col) ==
    GwReceive(ApiSlot,
              [Request("PUT", LabelsPath, "", "198.51.100.7", "none", SupportOrigin,
                       LabelsBody(NewLabels(upIssues[n].labels, statusMap(col))))
                  EXCEPT !.issue = n],
              MaxJointRequests)

\* One interval of the board's auto-refresh passes (KanbanColumn.jsx:137-139)
\* on the browser's clock and on the worker's.
JointTick ==
    /\ bEvents < MaxEvents
    /\ bEvents' = bEvents + 1
    /\ bNow' = bNow + cacheTimeout
    /\ gNow' = gNow + cacheTimeout \div 1000
    /\ UNCHANGED <<upIssues, bIssues, bLoading, bError, bCache, bLoads,
                   bPending, bTrack>>
    /\ UNCHANGED <<kvRate, kvTokens, kvCache, upWrites, slots, gRequests,
                   gAdvances, gGate>>
    /\ UNCHANGED <<mapperVars, filterVars, bFailed>>

\* The columns the other client moves issue 1 to.
JointTargets == {"todo", "inProgress"}

JointNext ==
    \/ ClientLoadSend
    \/ GwIssuesCacheGet(BoardSlot)
    \/ GwIssuesReturn(BoardSlot, "ok")
    \/ GwIssuesCachePut(BoardSlot)
    \/ ClientLoadAnswer
    \/ \E id \in Cards, src, dst \in ColumnSet : BoardDragMove(id, src, dst, 0)
    \/ \E k \in DOMAIN bPending : ClientGetSend(k)
    \/ \E k \in DOMAIN bPending : ClientGetAnswer(k)
    \/ \E col \in JointTargets : ApiPutLabels(1, col)
    \/ GwLabelsParse(ApiSlot)
    \/ GwLabelsReturn(ApiSlot, "ok")
    \/ JointTick

SpecJoint == GatewayInit /\ [][JointNext]_vars

\* C27: when a card is dropped into a different column while the gateway and
\* the upstream are healthy, updateIssueLabels completes successfully: every
\* gateway request it makes is matched by a gateway route (and so no drag's
\* update fails), and the upstream receives one label replacement for that
\* issue whose set contains status:<target column>.
C27_DropUpdatesLabels ==
    /\ \A s \in Slots :
          (slots[s].began > 0 /\ slots[s].req.token = VrosToken)
              => slots[s].handler # "notFound"
    /\ bFailed = {}
    /\ \A k \in DOMAIN bPending :
          bPending[k].stage = "put"
              => Includes(bPending[k].newLabels,
                          Label("status", bPending[k].newStatus))

\* A listing the board asked for after the latest label replacement is
\* shown: every open issue is in the column of its labels at the upstream.
LoadShowsMoves ==
    (/\ slots[BoardSlot].pc = "done" /\ slots'[BoardSlot].pc = "idle"
     /\ slots[BoardSlot].req.path = "/api/issues"
     /\ ResponseOk(slots[BoardSlot].resp)
     /\ upWrites > 0
     /\ slots[BoardSlot].startWrites = upWrites)
        => \A n \in Cards :
              upIssues[n].state = "open"
                  => HasCard(bIssues'[ColumnOf(upIssues[n])], n)

\* C29: after a successful move of an issue to column C, every later load of
\* the board (auto-refresh or manual refresh) shows the issue in column C
\* until another move of that issue is made.
C29_MovePersists == [][LoadShowsMoves]_vars

(***************************************************************************)
(* Token-record specification: POST /api/submit-bug requests carrying the  *)
(* same vros- token overlap in the worker while its clock runs.            *)
(***************************************************************************)
\* The worker's clock (new Date(), part_003:44 and :53-54) moves on by d
\* seconds, whether or not requests are at an await.
GwElapse(d) ==
    /\ gAdvances < MaxAdvances
    /\ gAdvances' = gAdvances + 1
    /\ gNow' = gNow + d
    /\ gGate' = [k \in RateKeys |->
                   IF kvRate[k].has /\ gNow + d >= kvRate[k].expires
                   THEN <<>> ELSE gGate[k]]
    /\ UNCHANGED <<kvRate, kvTokens, kvCache, upWrites, slots, gRequests>>
    /\ UNCHANGED <<mapperVars, boardVars, filterVars, bFailed>>

RecordInputs == { Submit("198.51.100.7", VrosToken, NoTitleBody) }

RecordNext ==
    \/ \E s \in Slots, req \in RecordInputs : GwReceive(s, req, MaxSubmitRequests)
    \/ \E s \in Slots : GwRateGet(s)
    \/ \E s \in Slots : GwRatePut(s)
    \/ \E s \in Slots : GwTokenGet(s)
    \/ \E s \in Slots : GwTokenPut(s)
    \/ \E s \in Slots : GwSubmitParse(s)
    \/ GwElapse(1)

SpecRecord == GatewayInit /\ [][RecordNext]_vars

\* In every step, a recorded token stays recorded with the created time it
\* has, and a classification that completes for a recorded token leaves the
\* current time as its last-used time.
RecordKept ==
    /\ \A t \in AllTokens :
          kvTokens[t].has =>
              /\ kvTokens'[t].has
              /\ kvTokens'[t].created = kvTokens[t].created
    /\ \A s \in Slots :
          (slots[s].pc = "tokenPut" /\ slots'[s].pc # "tokenPut"
             /\ slots'[s].classified)
              => kvTokens'[slots[s].req.token].lastUsed = gNow

\* C32: for every token ever recorded, after any sequence or interleaving of
\* classifications, the record is never deleted, its created time never
\* changes after the first recording, and its last-used time is updated by
\* every later classification of that token.
C32_TokenRecordStable == [][RecordKept]_vars

(***************************************************************************)
(* Gate specification: sequential POST /api/submit-bug requests of two     *)
(* addresses, with and without an app token, within one window.            *)
(***************************************************************************)
GateInputs ==
    { Submit(ip, tok, NoTitleBody) : ip \in Addresses, tok \in {"none", VrosToken} }

GateNext ==
    \/ \E req \in GateInputs : GwReceive(1, req, MaxGateRequests)
    \/ GwRateGet(1)
    \/ GwRatePut(1)
    \/ GwTokenGet(1)
    \/ GwTokenPut(1)
    \/ GwSubmitParse(1)

SpecGate == GatewayInit /\ [][GateNext]_vars

\* The steps of a submission the rate limiter rejects (its receipt and the
\* failed test of the counter) change no store and call nothing upstream.
RejectionFrame ==
    \A s \in Slots :
        (\/ slots[s].pc # "rateGet" /\ slots'[s].pc = "rateGet"
         \/ slots[s].pc = "rateGet" /\ slots'[s].pc = "done"
               /\ Is429(slots'[s].resp))
            => /\ kvRate' = kvRate
               /\ kvTokens' = kvTokens
               /\ kvCache' = kvCache
               /\ upWrites' = upWrites
               /\ slots'[s].calls = 0

\* C33: a POST /api/submit-bug rejected by the rate limiter leaves the rate
\* counter (value and expiry), the token store and the cache unchanged and
\* makes no upstream call; a rejected request has ended without a call and
\* without having been classified.
C33_RejectionChangesNothing ==
    /\ [](\A s \in Slots :
            (slots[s].pc = "done" /\ slots[s].handler = "submit"
               /\ Is429(slots[s].resp))
                => slots[s].calls = 0 /\ ~slots[s].classified)
    /\ [][RejectionFrame]_vars

\* C33 witness: a submission carrying a recorded token has been rejected by
\* the limiter, the counter of its address standing at the ceiling.
C33_Witness ==
    \E s \in Slots :
        /\ slots[s].pc = "done" /\ slots[s].handler = "submit"
        /\ Is429(slots[s].resp)
        /\ slots[s].req.token = VrosToken
        /\ kvTokens[VrosToken].has
        /\ kvRate[RateKey(slots[s].req.ip)].value = RateCeiling

\* C34: PUT /api/issues/:number/labels replaces labels upstream only when
\* the request carries an X-App-Token that classifies as trusted; a request
\* without such a token causes no upstream label replacement.
C34_LabelsNeedTrustedToken ==
    \A s \in Slots :
        (/\ slots[s].handler = "labels" /\ slots[s].pc = "done"
         /\ slots[s].resp.kind = "response" /\ slots[s].resp.status = 200)
            => /\ slots[s].req.token # "none"
               /\ \/ kvTokens[slots[s].req.token].has
                  \/ StartsWithVros(slots[s].req.token)

\* C35: only requests from configured origins are allowed: a request whose
\* Origin header is present and not in the allow-list runs no handler (it is
\* at most answered as a pre-flight or as not found) and causes no upstream
\* call or store write.
C35_ForeignOriginRunsNothing ==
    \A s \in Slots :
        (/\ slots[s].began > 0
         /\ slots[s].req.origin # "none"
         /\ slots[s].req.origin \notin AllowList)
            => /\ slots[s].handler \in {"preflight", "notFound"}
               /\ slots[s].calls = 0

\* C36: a bug submission carrying a trusted app token bypasses the rate limit
\* that applies to anonymous web submissions: it is admitted (never answered
\* 429) even when the counter of its address has reached the ceiling of 10.
C36_TrustedBypassesLimit ==
    \A s \in Slots :
        (/\ slots[s].handler = "submit" /\ slots[s].pc = "done"
         /\ slots[s].req.token # "none"
         /\ StartsWithVros(slots[s].req.token))
            => ~Is429(slots[s].resp)

\* The key of the counter of a request: its address, and unknown for a
\* request without the client-address header.
CounterOf(req) == IF req.ip = "none" THEN "unknown" ELSE req.ip

\* A step changes the counter and the admission results of an address only
\* if it is a step of the limiter for a request of that address; the
\* limiter's test for a request without the header is recorded under unknown.
CounterIsolated ==
    /\ \A k \in RateKeys :
          (kvRate'[k] # kvRate[k] \/ gGate'[k] # gGate[k])
              => \E s \in Slots :
                    /\ slots[s].pc \in {"rateGet", "ratePut"}
                    /\ slots'[s].pc # slots[s].pc
                    /\ CounterOf(slots[s].req) = k
    /\ \A s \in Slots :
          (slots[s].pc = "rateGet" /\ slots'[s].pc # "rateGet"
             /\ slots[s].req.ip = "none")
              => Len(gGate'["unknown"]) = Len(gGate["unknown"]) + 1

\* C37: rate counters are isolated per client address: requests from one
\* address never change the counter or the admission result of a different
\* address (within one window a request is rejected exactly when ten earlier
\* requests of its own address passed the gate), while all requests that lack
\* a client-address header share the single counter keyed unknown.
C37_CountersPerAddress ==
    /\ [](\A s \in Slots :
            (slots[s].pc = "done" /\ slots[s].ordinal > 0)
                => (Is429(slots[s].resp) <=> slots[s].ordinal > RateCeiling))
    /\ [][CounterIsolated]_vars

\* C37 witness: with the counter of one address at the ceiling, a request
\* without the address header has passed the gate as the first of its key.
C37_Witness ==
    \E s \in Slots :
        /\ slots[s].pc = "done" /\ slots[s].req.ip = "none"
        /\ slots[s].ordinal = 1 /\ ~Is429(slots[s].resp)
        /\ kvRate["198.51.100.7"].has
        /\ kvRate["198.51.100.7"].value = RateCeiling
        /\ kvRate["unknown"].has /\ kvRate["unknown"].value = 1

(***************************************************************************)
(* Drag specification: the board is loaded and cards are dragged; the      *)
(* label updates the drags start stay in flight.                           *)
(***************************************************************************)
DragNext ==
    \/ BoardLoadRequest
    \/ BoardLoadArrive
    \/ BoardDragOutside
    \/ \E id \in Cards, src \in ColumnSet :
          \/ /\ HasCard(bIssues[src], id)
             /\ BoardDragIgnored(id, src, IndexIn(bIssues[src], id), src,
                                 IndexIn(bIssues[src], id))
          \/ BoardDragIgnored(id, src, 0, src, 1)
    \/ \E id \in Cards, src \in ColumnSet, di \in 0..NumCards :
          BoardDragReorder(id, src, di)
    \/ \E id \in Cards, src, dst \in ColumnSet, di \in 0..NumCards :
          BoardDragMove(id, src, dst, di)

SpecDrag == BoardInit /\ [][DragNext]_vars

\* How many times card n is in column c of cols, and on the whole board.
TimesIn(cols, c, n) == Len(SelectSeq(cols[c], LAMBDA card : card.number = n))
TimesOnBoard(cols, n) ==
    TimesIn(cols, "backlog", n) + TimesIn(cols, "todo", n)
      + TimesIn(cols, "inProgress", n) + TimesIn(cols, "testing", n)
      + TimesIn(cols, "done", n)

\* The cards whose column differs between two boards.
Moved(before, after) ==
    {n \in Cards : \E c \in ColumnSet : TimesIn(before, c, n) # TimesIn(after, c, n)}

\* A step of onDragEnd (an event that starts no load) keeps every card once
\* on the board and changes the column of one card at most.
DragKeepsCards ==
    (bEvents' # bEvents /\ bLoads' = bLoads)
        => /\ \A n \in Cards :
                 TimesOnBoard(bIssues, n) = 1 => TimesOnBoard(bIssues', n) = 1
           /\ \A n \in Cards :
                 TimesOnBoard(bIssues, n) = 0 => TimesOnBoard(bIssues', n) = 0
           /\ Cardinality(Moved(bIssues, bIssues')) <= 1

\* C38: after any drag end (any source, destination and index, including a
\* drop in the same column or outside every column), every issue that was on
\* the board is in exactly one column: no card is duplicated or lost, and
\* only the dragged card can have changed column.
C38_DragKeepsEveryCard ==
    /\ [](\A n \in Cards : TimesOnBoard(bIssues, n) <= 1)
    /\ [][DragKeepsCards]_vars

\* C38 witness: after a move to another column and a reorder, a column
\* holds card 2 ahead of card 1, the reverse of the loaded order.
C38_Witness ==
    /\ bPending # <<>>
    /\ \E c \in ColumnSet \ {"backlog"} :
          /\ Len(bIssues[c]) = 2
          /\ bIssues[c][1].number = 2 /\ bIssues[c][2].number = 1

(***************************************************************************)
(* Form specification: the web bug-report form submits to the worker,      *)
(* one request after the other.                                            *)
(***************************************************************************)
\* bug-form.js getAppToken: the token kept in localStorage under
\* vros-app-token, or a new one, `vros-${Date.now()}-${random}`, that is
\* stored there; stored is "none" for a browser that holds no token.
getAppToken(stored) == IF stored = "none" THEN VrosToken ELSE stored

\* What localStorage holds under vros-app-token when the form is submitted:
\* nothing (first submission of the browser) or the token of an earlier one.
FormStorage == {"none", VrosToken}

\* bug-form.js submitBug: POST <apiBase>/submit-bug with the X-App-Token
\* header set to getAppToken() and the form's data as JSON body.
submitBug(s, stored, body) ==
    GwReceive(s, Submit("198.51.100.7", getAppToken(stored), body),
              MaxSubmitRequests)

FormNext ==
    \/ \E stored \in FormStorage, b \in {ValidBody, FullBody, NoTitleBody} :
          submitBug(1, stored, b)
    \/ GwRateGet(1)
    \/ GwRatePut(1)
    \/ GwTokenGet(1)
    \/ GwTokenPut(1)
    \/ GwSubmitParse(1)
    \/ \E o \in Outcomes : GwCreateReturn(1, o)

SpecForm == GatewayInit /\ [][FormNext]_vars

\* C39: a bug report submitted through the web bug-report form by a browser
\* that did not come from the app is classified anonymous by the gateway and
\* is created upstream with the web-submission label.
C39_WebFormIsAnonymous ==
    \A s \in Slots :
        (slots[s].handler = "submit" /\ Accepted(s))
            => /\ ~slots[s].isFromApp
               /\ Includes(slots[s].labels, Label("", "web-submission"))

====
